---- MODULE Spec2Model ----
(***************************************************************************)
(* Model of the InspectPCB dataset pipeline: the DeepPCB annotation        *)
(* converter (convert_deeppcb.py, fix_and_setup_dataset.py), the collector *)
(* of (image, label) pairs and the train/val/test splitter                 *)
(* (prepare_data.py, fix_and_setup_dataset.py).                            *)
(*                                                                         *)
(* Python floats are IEEE-754 binary64 values.  They are modelled as a     *)
(* sign, a mantissa (a natural number of any size, written as a sequence   *)
(* of limbs of LimbBits bits, least significant limb first, <<>> for zero) *)
(* and a binary exponent, so that every rounding the interpreter does is   *)
(* done here too.                                                          *)
(* File names are sequences of one-character strings.                      *)
(***************************************************************************)
EXTENDS Integers, Sequences, FiniteSets, TLC

\* ------------------------------------------------------------------------
\* Natural numbers of any size: limbs of LimbBits bits, least significant
\* limb first, no zero limb at the end
\* ------------------------------------------------------------------------

Max(a, b) == IF a >= b THEN a ELSE b

Min(a, b) == IF a <= b THEN a ELSE b

Abs(n) == IF n < 0 THEN -n ELSE n

LimbBits == 4 * 5

Base == 2 ^ LimbBits

RECURSIVE Norm(_)
Norm(x) ==
    IF x = <<>> THEN <<>>
    ELSE IF x[Len(x)] = 0 THEN Norm(SubSeq(x, 1, Len(x) - 1)) ELSE x

RECURSIVE BigOfNat(_)
BigOfNat(n) == IF n = 0 THEN <<>> ELSE <<n % Base>> \o BigOfNat(n \div Base)

RECURSIVE NatOfBig(_)
NatOfBig(x) == IF x = <<>> THEN 0 ELSE x[1] + Base * NatOfBig(Tail(x))

\* the number of bits of a natural number below 2^31
RECURSIVE BitLenNat(_)
BitLenNat(n) == IF n = 0 THEN 0 ELSE 1 + BitLenNat(n \div 2)

BitLen(x) ==
    IF x = <<>> THEN 0 ELSE LimbBits * (Len(x) - 1) + BitLenNat(x[Len(x)])

\* bit j of x (bit 0 is the least significant)
Bit(x, j) ==
    IF j < 0 \/ j \div LimbBits + 1 > Len(x) THEN 0
    ELSE (x[j \div LimbBits + 1] \div (2 ^ (j % LimbBits))) % 2

\* whether some bit of x below bit j is 1
LowNonZero(x, j) ==
    \/ \E i \in 1..Min(Len(x), j \div LimbBits) : x[i] # 0
    \/ /\ j > 0
       /\ j \div LimbBits + 1 <= Len(x)
       /\ x[j \div LimbBits + 1] % (2 ^ (j % LimbBits)) # 0

\* x * n for 0 <= n <= 2^10
RECURSIVE MulCarry(_, _, _, _)
MulCarry(x, n, i, carry) ==
    IF i > Len(x) THEN BigOfNat(carry)
    ELSE LET t == x[i] * n + carry
         IN  <<t % Base>> \o MulCarry(x, n, i + 1, t \div Base)

BigMulNat(x, n) == Norm(MulCarry(x, n, 1, 0))

Limb(x, i) == IF i >= 1 /\ i <= Len(x) THEN x[i] ELSE 0

RECURSIVE AddCarry(_, _, _, _)
AddCarry(x, y, i, carry) ==
    IF i > Max(Len(x), Len(y)) THEN BigOfNat(carry)
    ELSE LET t == Limb(x, i) + Limb(y, i) + carry
         IN  <<t % Base>> \o AddCarry(x, y, i + 1, t \div Base)

BigAdd(x, y) == Norm(AddCarry(x, y, 1, 0))

\* x <= y
RECURSIVE LeqFrom(_, _, _)
LeqFrom(x, y, i) ==
    IF i = 0 THEN TRUE
    ELSE IF x[i] # y[i] THEN x[i] < y[i]
    ELSE LeqFrom(x, y, i - 1)

BigLeq(x, y) == IF Len(x) # Len(y) THEN Len(x) < Len(y) ELSE LeqFrom(x, y, Len(x))

\* floor(x / 2^r)
ShiftRight(x, r) ==
    LET q == r \div LimbBits
        s == r % LimbBits
    IN  Norm([i \in 1..Max(Len(x) - q, 0) |->
                (Limb(x, i + q) \div (2 ^ s))
                + (Limb(x, i + q + 1) % (2 ^ s)) * (2 ^ (LimbBits - s))])

\* x * 2^r
ShiftLeft(x, r) ==
    IF x = <<>> THEN <<>>
    ELSE [i \in 1..(r \div LimbBits) |-> 0] \o BigMulNat(x, 2 ^ (r % LimbBits))

\* the number of zero bits at the low end of x # 0
RECURSIVE TrailingZeros(_, _)
TrailingZeros(x, j) == IF Bit(x, j) = 1 THEN j ELSE TrailingZeros(x, j + 1)

\* ------------------------------------------------------------------------
\* binary64 values: [neg, m, e] is (-1)^neg * m * 2^e, m odd or zero
\* ------------------------------------------------------------------------

\* the number of mantissa bits of a Python float
MantissaBits == 53

FZero == [neg |-> FALSE, m |-> <<>>, e |-> 0]

\* the same value with an odd mantissa
Canon(neg, m, e) ==
    IF m = <<>> THEN FZero
    ELSE LET z == (CHOOSE i \in 1..Len(m) : m[i] # 0 /\ \A k \in 1..(i - 1) : m[k] = 0) - 1
             t == LimbBits * z + TrailingZeros(<<m[z + 1]>>, 0)
         IN  [neg |-> neg, m |-> ShiftRight(m, t), e |-> e + t]

\* round to nearest, ties to even, an exact value m * 2^e of which further
\* non-zero bits may have been cut off (sticky)
RoundNearestEven(neg, m, e, sticky) ==
    LET r == BitLen(m) - MantissaBits
    IN  IF r <= 0 THEN Canon(neg, m, e)
        ELSE LET keep == ShiftRight(m, r)
                 more == sticky \/ LowNonZero(m, r - 1)
                 up   == Bit(m, r - 1) = 1 /\ (more \/ Bit(keep, 0) = 1)
             IN  Canon(neg, IF up THEN BigAdd(keep, <<1>>) ELSE keep, e + r)

\* float(n) for an int n below 2^31
FromInt(n) == Canon(n < 0, BigOfNat(Abs(n)), 0)

\* n * d for an int 0 <= n <= 2^10: the exact product, rounded once
FMulNat(n, d) == RoundNearestEven(d.neg, BigMulNat(d.m, n), d.e, FALSE)

\* a + b for a, b >= 0: the exact sum, rounded once
FAdd(a, b) ==
    LET e == Min(a.e, b.e)
    IN  RoundNearestEven(FALSE, BigAdd(ShiftLeft(a.m, a.e - e), ShiftLeft(b.m, b.e - e)),
                         e, FALSE)

\* long division of x by 0 < n <= 2^10, from the most significant limb:
\* <<quotient, remainder>>
RECURSIVE DivSteps(_, _, _, _)
DivSteps(x, n, i, r) ==
    IF i = 0 THEN <<<<>>, r>>
    ELSE LET t    == r * Base + x[i]
             rest == DivSteps(x, n, i - 1, t % n)
         IN  <<Append(rest[1], t \div n), rest[2]>>

\* d / n for an int 0 < n <= 2^10: the exact quotient, rounded once; the
\* dividend is first scaled so that the quotient has bits beyond the mantissa
FDivNat(d, n) ==
    IF d.m = <<>> THEN FZero
    ELSE LET s  == Max(0, BitLenNat(n) + MantissaBits + 2 - BitLen(d.m))
             x  == ShiftLeft(d.m, s)
             qr == DivSteps(x, n, Len(x), 0)
         IN  RoundNearestEven(d.neg, Norm(qr[1]), d.e - s, qr[2] # 0)

\* int(d): truncation towards zero
FTrunc(d) ==
    LET a == IF d.e >= 0 THEN NatOfBig(ShiftLeft(d.m, d.e))
             ELSE NatOfBig(ShiftRight(d.m, -d.e))
    IN  IF d.neg THEN -a ELSE a

\* the format ".6f" keeps 6 digits after the point: a factor of 1000 * 1000
Thousand == 1000

FormatScale == Thousand * Thousand

\* f"{d:.6f}": the decimal with 6 digits after the point nearest to the exact
\* value of d (ties to even), given as the integer d * 10^6 so rounded
Format6f(d) ==
    LET p  == BigMulNat(BigMulNat(d.m, Thousand), Thousand)
        ip == IF d.e >= 0 THEN NatOfBig(ShiftLeft(p, d.e))
              ELSE NatOfBig(ShiftRight(p, -d.e))
        up == /\ d.e < 0
              /\ Bit(p, -d.e - 1) = 1
              /\ (LowNonZero(p, -d.e - 1) \/ ip % 2 = 1)
        a  == IF up THEN ip + 1 ELSE ip
    IN  IF d.neg THEN -a ELSE a

\* hexadecimal digit j of h, 0 before the first
HexDigit(h, j) == IF j >= 1 THEN h[j] ELSE 0

\* the natural number written by hexadecimal digits, first digit first:
\* five digits make a limb
BigOfHex(h) ==
    Norm([i \in 1..((Len(h) + 4) \div 5) |->
            LET j == Len(h) - 5 * (i - 1)
            IN  HexDigit(h, j) + 16 * HexDigit(h, j - 1) + 256 * HexDigit(h, j - 2)
                + 4096 * HexDigit(h, j - 3) + 65536 * HexDigit(h, j - 4)])

\* the float whose float.hex() is 0x1.<13 hexadecimal digits>p<exp>
FloatHex(frac, exp) == Canon(FALSE, BigOfHex(<<1>> \o frac), exp - 4 * Len(frac))

\* ------------------------------------------------------------------------
\* Python sequences
\* ------------------------------------------------------------------------

Range(s) == {s[i] : i \in 1..Len(s)}

\* s[lo:hi] for lo, hi >= 0
PySlice(s, lo, hi) == SubSeq(s, Min(lo, Len(s)) + 1, Min(hi, Len(s)))

\* s[lo:]
PySliceFrom(s, lo) == SubSeq(s, Min(lo, Len(s)) + 1, Len(s))

Reverse(s) == [i \in 1..Len(s) |-> s[Len(s) + 1 - i]]

\* every ordering of the elements of a sequence without repetitions
RECURSIVE Orderings(_)
Orderings(S) ==
    IF S = {} THEN {<<>>}
    ELSE UNION {{<<x>> \o t : t \in Orderings(S \ {x})} : x \in S}

\* the longest list of which every outcome of random.shuffle is explored
MaxShuffleLen == 4

\* random.shuffle(s): any permutation of s; of a list longer than
\* MaxShuffleLen only s itself, s reversed and s rotated by one are explored
Shuffles(s) ==
    IF Len(s) <= MaxShuffleLen
    THEN {[i \in 1..Len(s) |-> s[p[i]]] : p \in Orderings(1..Len(s))}
    ELSE {s, Reverse(s), Tail(s) \o <<s[1]>>}

\* ------------------------------------------------------------------------
\* Python strings: sequences of one-character strings
\* ------------------------------------------------------------------------

Digits == <<"0", "1", "2", "3", "4", "5", "6", "7", "8", "9">>

IsDigit(c) == \E i \in 1..10 : Digits[i] = c

DigitValue(c) == (CHOOSE i \in 1..10 : Digits[i] = c) - 1

\* the characters str.strip(), str.split() and int() treat as white space
IsSpace(c) == c \in {" ", "\t", "\r", "\n"}

\* ch in s
HasChar(s, ch) == \E i \in 1..Len(s) : s[i] = ch

\* s.strip()
Strip(s) ==
    LET keep == {i \in 1..Len(s) : ~IsSpace(s[i])}
    IN  IF keep = {} THEN <<>>
        ELSE SubSeq(s, CHOOSE i \in keep : \A j \in keep : i <= j,
                       CHOOSE i \in keep : \A j \in keep : i >= j)

\* the k-th smallest element of a set of numbers
Nth(S, k) == CHOOSE i \in S : Cardinality({j \in S : j < i}) = k - 1

\* s.split(ch): the pieces between the occurrences of ch, empty ones kept
SplitOn(s, ch) ==
    LET at     == {i \in 1..Len(s) : s[i] = ch}
        n      == Cardinality(at)
        cut(k) == IF k = 0 THEN 0 ELSE IF k = n + 1 THEN Len(s) + 1 ELSE Nth(at, k)
    IN  [k \in 1..(n + 1) |-> SubSeq(s, cut(k - 1) + 1, cut(k) - 1)]

\* s.split(): the maximal runs of characters that are not white space
SplitSpace(s) ==
    LET first == {i \in 1..Len(s) :
                     ~IsSpace(s[i]) /\ (i = 1 \/ IsSpace(s[i - 1]))}
        last  == {i \in 1..Len(s) :
                     ~IsSpace(s[i]) /\ (i = Len(s) \/ IsSpace(s[i + 1]))}
    IN  [k \in 1..Cardinality(first) |-> SubSeq(s, Nth(first, k), Nth(last, k))]

\* the number written by decimal digits
RECURSIVE DecimalValue(_)
DecimalValue(t) ==
    IF t = <<>> THEN 0
    ELSE 10 * DecimalValue(SubSeq(t, 1, Len(t) - 1)) + DigitValue(t[Len(t)])

\* int(tok): white space around the number is ignored, one sign may precede
\* the digits; anything else raises ValueError (ok = FALSE)
ParseInt(tok) ==
    LET t      == Strip(tok)
        signed == t # <<>> /\ t[1] \in {"+", "-"}
        body   == IF signed THEN Tail(t) ELSE t
        ok     == body # <<>> /\ \A i \in 1..Len(body) : IsDigit(body[i])
    IN  [ok  |-> ok,
         val |-> IF ~ok THEN 0
                 ELSE IF signed /\ t[1] = "-" THEN -DecimalValue(body)
                 ELSE DecimalValue(body)]

\* str(n) for an int n
RECURSIVE DigitsOfNat(_)
DigitsOfNat(n) ==
    IF n < 10 THEN <<Digits[n + 1]>> ELSE Append(DigitsOfNat(n \div 10), Digits[(n % 10) + 1])

IntStr(n) == IF n < 0 THEN <<"-">> \o DigitsOfNat(-n) ELSE DigitsOfNat(n)

\* sep.join(parts)
RECURSIVE Join(_, _)
Join(parts, sep) ==
    IF parts = <<>> THEN <<>>
    ELSE IF Len(parts) = 1 THEN parts[1]
    ELSE parts[1] \o sep \o Join(Tail(parts), sep)

\* ------------------------------------------------------------------------
\* The annotation converter
\* ------------------------------------------------------------------------

\* the box with its width divided by the height of the image
YoloBoxWidthByHeight(x1, y1, x2, y2, w, h) ==
    [center_x    |-> FDivNat(FDivNat(FromInt(x1 + x2), 2), w),
     center_y    |-> FDivNat(FDivNat(FromInt(y1 + y2), 2), h),
     bbox_width  |-> FDivNat(FromInt(x2 - x1), h),
     bbox_height |-> FDivNat(FromInt(y2 - y1), h)]

\* the box with the centre not halved
YoloBoxCentreNotHalved(x1, y1, x2, y2, w, h) ==
    [center_x    |-> FDivNat(FromInt(x1 + x2), w),
     center_y    |-> FDivNat(FromInt(y1 + y2), h),
     bbox_width  |-> FDivNat(FromInt(x2 - x1), w),
     bbox_height |-> FDivNat(FromInt(y2 - y1), h)]

\* the four values of a YOLO record as Python computes them
YoloBox(x1, y1, x2, y2, w, h) ==
    [center_x    |-> FDivNat(FDivNat(FromInt(x1 + x2), 2), w),
     center_y    |-> FDivNat(FDivNat(FromInt(y1 + y2), 2), h),
     bbox_width  |-> FDivNat(FromInt(x2 - x1), w),
     bbox_height |-> FDivNat(FromInt(y2 - y1), h)]

\* the class id decremented whatever it is
RemapClassUnguarded(class_id) == class_id - 1

\* DeepPCB uses 1-6 class IDs, convert to 0-5 for YOLO
RemapClass(class_id) == IF class_id > 0 THEN class_id - 1 ELSE class_id

\* the tokens of a stripped line: by comma if it has one, else by white space
Tokenize(line) == IF HasChar(line, ",") THEN SplitOn(line, ",") ELSE SplitSpace(line)

\* one line of the annotation file: what is written for it, if anything.
\* wrote = FALSE is a line that is empty, has fewer than 5 fields or raises
\* ValueError in int(); box holds the floats before they are formatted and
\* rec the record written, its four values as the integers value * 10^6
\* that the format ".6f" prints
ConvertLine(raw, w, h) ==
    LET line  == Strip(raw)
        parts == Tokenize(line)
        ints  == [i \in 1..5 |-> ParseInt(parts[i])]
    IN  IF line = <<>> \/ Len(parts) < 5 \/ \E i \in 1..5 : ~ints[i].ok
        THEN [wrote |-> FALSE]
        ELSE LET box == YoloBox(ints[1].val, ints[2].val, ints[3].val, ints[4].val, w, h)
             IN  [wrote |-> TRUE,
                  src   |-> [i \in 1..5 |-> ints[i].val],
                  box   |-> box,
                  rec   |-> [class_id    |-> RemapClass(ints[5].val),
                             center_x    |-> Format6f(box.center_x),
                             center_y    |-> Format6f(box.center_y),
                             bbox_width  |-> Format6f(box.bbox_width),
                             bbox_height |-> Format6f(box.bbox_height)]]

\* the conversion given up at the first line that is not written
ConvertLinesUntilSkipped(lines, w, h) ==
    LET done == [i \in 1..Len(lines) |-> ConvertLine(lines[i], w, h)]
        stop == IF \A i \in 1..Len(lines) : done[i].wrote THEN Len(lines) + 1
                ELSE CHOOSE i \in 1..Len(lines) :
                        ~done[i].wrote /\ \A k \in 1..(i - 1) : done[k].wrote
    IN  SubSeq(done, 1, stop - 1)

\* the loop over the lines of the annotation file
ConvertLines(lines, w, h) ==
    LET done == [i \in 1..Len(lines) |-> ConvertLine(lines[i], w, h)]
    IN  SelectSeq(done, LAMBDA r : r.wrote)

\* the result of a conversion that reached the end of the annotation file:
\* True, the lines written to output_file (opened with 'w'), and for each
\* of them the line read and the values computed from it
Written(written) ==
    [ret    |-> TRUE,
     output |-> [i \in 1..Len(written) |-> written[i].rec],
     log    |-> written]

\* the converter with the output file opened for appending
ConvertAnnotationFileAppending(ann, img, old_output) ==
    IF ~img.ok \/ ~ann.ok
    THEN [ret |-> FALSE, output |-> old_output.lines, log |-> <<>>]
    ELSE [Written(ConvertLines(ann.lines, img.w, img.h))
             EXCEPT !.output = old_output.lines \o @]

\* convert_annotation_file(annotation_file, image_file, output_file): the
\* value returned and the content of the output file afterwards.  An image
\* or an annotation file that cannot be opened raises before the output
\* file is opened; otherwise the output file is opened with mode 'w'.
ConvertAnnotationFile(ann, img, old_output) ==
    IF ~img.ok \/ ~ann.ok
    THEN [ret |-> FALSE, output |-> old_output.lines, log |-> <<>>]
    ELSE Written(ConvertLines(ann.lines, img.w, img.h))

\* convert_annotation(ann_file, img_file, output_file) of
\* fix_and_setup_dataset.py: the same steps
ConvertAnnotation(ann, img, old_output) ==
    IF ~img.ok \/ ~ann.ok
    THEN [ret |-> FALSE, output |-> old_output.lines, log |-> <<>>]
    ELSE Written(ConvertLines(ann.lines, img.w, img.h))

\* ------------------------------------------------------------------------
\* The split of the valid pairs
\* ------------------------------------------------------------------------

F00 == FZero
F01 == FloatHex(<<9, 9, 9, 9, 9, 9, 9, 9, 9, 9, 9, 9, 10>>, -4)
F02 == FloatHex(<<9, 9, 9, 9, 9, 9, 9, 9, 9, 9, 9, 9, 10>>, -3)
F05 == FloatHex(<<0, 0, 0, 0, 0, 0, 0, 0, 0, 0, 0, 0, 0>>, -1)
F07 == FloatHex(<<6, 6, 6, 6, 6, 6, 6, 6, 6, 6, 6, 6, 6>>, -1)
F09 == FloatHex(<<12, 12, 12, 12, 12, 12, 12, 12, 12, 12, 12, 12, 13>>, -1)
F10 == FloatHex(<<0, 0, 0, 0, 0, 0, 0, 0, 0, 0, 0, 0, 0>>, 0)
F15 == FloatHex(<<8, 0, 0, 0, 0, 0, 0, 0, 0, 0, 0, 0, 0>>, 0)

\* the default train_ratio and val_ratio of split_unified_dataset
DefaultTrainRatio == F07
DefaultValRatio == F02

\* the ratios split_unified_dataset is called with
Ratios == {F00, F01, F02, F05, F07, F09, F10, F15}

\* the most valid pairs of a split whose pairs are not files of the model
MaxPairs == 100

\* the slices with the test slice taken from train_end instead of val_end
SlicesTestFromTrainEnd(pairs, train_end, val_end) ==
    [train |-> PySlice(pairs, 0, train_end),
     val   |-> PySlice(pairs, train_end, val_end),
     test  |-> PySliceFrom(pairs, train_end)]

\* the three slices of the shuffled pairs
SlicesAt(pairs, train_end, val_end) ==
    [train |-> PySlice(pairs, 0, train_end),
     val   |-> PySlice(pairs, train_end, val_end),
     test  |-> PySliceFrom(pairs, val_end)]

\* split_unified_dataset: train_end, val_end and the slices
SplitUnifiedSlices(pairs, tr, vr) ==
    LET total_pairs == Len(pairs)
        train_end   == FTrunc(FMulNat(total_pairs, tr))
        val_end     == FTrunc(FMulNat(total_pairs, FAdd(tr, vr)))
    IN  SlicesAt(pairs, train_end, val_end)

\* step3_split_dataset: train_end, val_end and the slices
Step3Slices(pairs) ==
    LET train_end == FTrunc(FMulNat(Len(pairs), F07))
        val_end   == FTrunc(FMulNat(Len(pairs), F09))
    IN  SlicesAt(pairs, train_end, val_end)

\* ------------------------------------------------------------------------
\* File names and directories
\* ------------------------------------------------------------------------

\* s.startswith(p)
StartsWith(s, p) == Len(s) >= Len(p) /\ SubSeq(s, 1, Len(p)) = p

\* s.endswith(p)
EndsWith(s, p) == Len(s) >= Len(p) /\ SubSeq(s, Len(s) - Len(p) + 1, Len(s)) = p

\* sub in s
Contains(s, sub) ==
    \E i \in 0..(Len(s) - Len(sub)) : SubSeq(s, i + 1, i + Len(sub)) = sub

\* s.replace(old, new) for a non-empty old: every occurrence, from the left
RECURSIVE Replace(_, _, _)
Replace(s, old, new) ==
    IF Len(s) < Len(old) THEN s
    ELSE IF StartsWith(s, old)
         THEN new \o Replace(SubSeq(s, Len(old) + 1, Len(s)), old, new)
         ELSE <<s[1]>> \o Replace(Tail(s), old, new)

\* the position of the dot at which os.path.splitext cuts a file name: the
\* last dot, if some character before it is not a dot; 0 if there is none
ExtDot(name) ==
    LET dots == {i \in 1..Len(name) :
                    name[i] = "." /\ \E k \in 1..(i - 1) : name[k] # "."}
    IN  IF dots = {} THEN 0 ELSE CHOOSE i \in dots : \A k \in dots : k <= i

\* os.path.splitext(name)[0]
SplitExtRoot(name) ==
    IF ExtDot(name) = 0 THEN name ELSE SubSeq(name, 1, ExtDot(name) - 1)

Underscore == <<"_">>

DotTxt == <<".", "t", "x", "t">>

DotJpg == <<".", "j", "p", "g">>

DotJpeg == <<".", "j", "p", "e", "g">>

DotPng == <<".", "p", "n", "g">>

TestSuffix == <<"_", "t", "e", "s", "t">>

TempSuffix == <<"_", "t", "e", "m", "p">>

GroupPrefix == <<"g", "r", "o", "u", "p">>

\* a file of a directory: its name, its content (data) and, for the properties,
\* the annotation or image of PCBData it was made from (origin)
File(name, data, origin) == [name |-> name, data |-> data, origin |-> origin]

\* the directory after a file was written: a file of that name is replaced
WriteFile(files, f) == {g \in files : g.name # f.name} \cup {f}

\* os.path.exists of a file name in a directory
Exists(files, name) == \E f \in files : f.name = name

FileNamed(files, name) == CHOOSE f \in files : f.name = name

\* the orders in which os.listdir or glob may list a set of files
Listings(files) == Shuffles(CHOOSE q \in Orderings(files) : TRUE)

\* ------------------------------------------------------------------------
\* The collectors: collect_deeppcb_dataset and step2_collect_and_convert
\*
\* DeepPCB/PCBData is [exists, entries]: entries is the sequence of its
\* directories in the order os.listdir gives them.  An entry is
\* [name, image_subdir, annotation_subdir, images, annotations]: whether it
\* has a subdirectory not ending in "_not" and one ending in "_not", the set
\* of files of the first and the "*.txt" files of the second in the order
\* glob gives them.
\* ------------------------------------------------------------------------

RECURSIVE Flatten(_)
Flatten(ss) == IF ss = <<>> THEN <<>> ELSE Head(ss) \o Flatten(Tail(ss))

\* the first of the candidate names that is a file of the directory, <<>>
\* if none is
FirstExisting(files, candidates) ==
    LET hits == {i \in 1..Len(candidates) : Exists(files, candidates[i])}
    IN  IF hits = {} THEN <<>>
        ELSE candidates[CHOOSE i \in hits : \A k \in hits : i <= k]

\* collect_deeppcb_dataset: <base>_test.jpg, then .png and .jpeg
DeepPCBCandidates(base_name) ==
    <<base_name \o TestSuffix \o DotJpg,
      base_name \o TestSuffix \o DotPng,
      base_name \o TestSuffix \o DotJpeg>>

\* step2_collect_and_convert: test_image_patterns
Step2Candidates(base_name) ==
    <<base_name \o TestSuffix \o DotJpg,
      base_name \o TestSuffix \o DotPng,
      base_name \o DotJpg,
      base_name \o DotPng>>

\* the (group, annotation file) pairs in the order the loops visit them
WorkItems(entries) ==
    Flatten([i \in 1..Len(entries) |->
                IF entries[i].image_subdir /\ entries[i].annotation_subdir
                THEN [k \in 1..Len(entries[i].annotations) |->
                         [group |-> entries[i], ann |-> entries[i].annotations[k]]]
                ELSE <<>>])

\* the content of a label file of a directory, as the converter finds it
OldOutput(files, name) ==
    IF Exists(files, name)
    THEN [exists |-> TRUE, lines |-> FileNamed(files, name).data]
    ELSE [exists |-> FALSE, lines |-> <<>>]

\* what a collector has done so far: the two unified directories, the
\* counters and, for each annotation with an image, the names it used
NoCollection ==
    [images |-> {}, labels |-> {}, total_processed |-> 0, total_converted |-> 0,
     log |-> <<>>]

\* the collector state after one annotation file was copied and converted:
\* img is the image found, r the result of the converter
Collected(st, item, img, image_name, label_name, r) ==
    [images |-> WriteFile(st.images, File(image_name, img.data, img.origin)),
     labels |-> IF r.ret
                THEN WriteFile(st.labels, File(label_name, r.output, item.ann.origin))
                ELSE st.labels,
     total_processed |-> st.total_processed + 1,
     total_converted |-> st.total_converted + (IF r.ret THEN 1 ELSE 0),
     log |-> Append(st.log, [group |-> item.group.name,
                             base_name |-> SplitExtRoot(item.ann.name),
                             image |-> image_name,
                             label |-> label_name,
                             converted |-> r.ret])]

\* collect_deeppcb_dataset, the body of "for ann_file in annotation_files"
\* once the test image was found: the image is copied to
\* <group>_<image name>, the label converted to <group>_<base>.txt
DeepPCBCopyAndConvert(st, item, img) ==
    Collected(st, item, img,
              item.group.name \o Underscore \o img.name,
              item.group.name \o Underscore \o SplitExtRoot(item.ann.name) \o DotTxt,
              ConvertAnnotationFile(item.ann.data, img.data,
                  OldOutput(st.labels, item.group.name \o Underscore
                                        \o SplitExtRoot(item.ann.name) \o DotTxt)))

\* the body of the loop in a collector that gives up at the first annotation
\* whose conversion fails
DeepPCBCollectOneUntilFailure(st, item) ==
    IF st.total_converted < st.total_processed
           \/ FirstExisting(item.group.images,
                            DeepPCBCandidates(SplitExtRoot(item.ann.name))) = <<>>
    THEN st
    ELSE DeepPCBCopyAndConvert(st, item,
             FileNamed(item.group.images,
                 FirstExisting(item.group.images,
                               DeepPCBCandidates(SplitExtRoot(item.ann.name)))))

\* collect_deeppcb_dataset, the body of "for ann_file in annotation_files"
DeepPCBCollectOne(st, item) ==
    IF FirstExisting(item.group.images, DeepPCBCandidates(SplitExtRoot(item.ann.name))) = <<>>
    THEN st
    ELSE DeepPCBCopyAndConvert(st, item,
             FileNamed(item.group.images,
                 FirstExisting(item.group.images,
                               DeepPCBCandidates(SplitExtRoot(item.ann.name)))))

RECURSIVE DeepPCBCollectFrom(_, _, _)
DeepPCBCollectFrom(items, i, st) ==
    IF i > Len(items) THEN st
    ELSE DeepPCBCollectFrom(items, i + 1, DeepPCBCollectOne(st, items[i]))

\* the entries of PCBData that collect_deeppcb_dataset takes for groups
\* (an entry of the model is a directory)
DeepPCBGroupDirs(entries) ==
    SelectSeq(entries, LAMBDA d : StartsWith(d.name, GroupPrefix))

\* collect_deeppcb_dataset after its makedirs, on unified directories that
\* hold images and labels: the directories afterwards, the counters and the
\* value returned
CollectDeepPCBDataset(pcb_data, images, labels) ==
    IF ~pcb_data.exists
    THEN [NoCollection EXCEPT !.images = images, !.labels = labels]
    ELSE DeepPCBCollectFrom(WorkItems(DeepPCBGroupDirs(pcb_data.entries)), 1,
                            [NoCollection EXCEPT !.images = images, !.labels = labels])

\* step2_collect_and_convert, the body of "for ann_file in annotation_files"
\* once an image was found: the image is copied to <group>_<base>.jpg, the
\* label converted to <group>_<base>.txt
Step2CopyAndConvert(st, item, img) ==
    Collected(st, item, img,
              item.group.name \o Underscore \o SplitExtRoot(item.ann.name) \o DotJpg,
              item.group.name \o Underscore \o SplitExtRoot(item.ann.name) \o DotTxt,
              ConvertAnnotation(item.ann.data, img.data,
                  OldOutput(st.labels, item.group.name \o Underscore
                                        \o SplitExtRoot(item.ann.name) \o DotTxt)))

\* the body of the loop taking the template image <base>_temp.jpg when no
\* image of test_image_patterns exists
Step2CollectOneWithTemplate(st, item) ==
    IF FirstExisting(item.group.images,
                     Step2Candidates(SplitExtRoot(item.ann.name))
                        \o <<SplitExtRoot(item.ann.name) \o TempSuffix \o DotJpg>>) = <<>>
    THEN st
    ELSE Step2CopyAndConvert(st, item,
             FileNamed(item.group.images,
                 FirstExisting(item.group.images,
                     Step2Candidates(SplitExtRoot(item.ann.name))
                        \o <<SplitExtRoot(item.ann.name) \o TempSuffix \o DotJpg>>)))

\* step2_collect_and_convert, the body of "for ann_file in annotation_files"
Step2CollectOne(st, item) ==
    IF FirstExisting(item.group.images, Step2Candidates(SplitExtRoot(item.ann.name))) = <<>>
    THEN st
    ELSE Step2CopyAndConvert(st, item,
             FileNamed(item.group.images,
                 FirstExisting(item.group.images,
                               Step2Candidates(SplitExtRoot(item.ann.name)))))

RECURSIVE Step2CollectFrom(_, _, _)
Step2CollectFrom(items, i, st) ==
    IF i > Len(items) THEN st
    ELSE Step2CollectFrom(items, i + 1, Step2CollectOne(st, items[i]))

\* step2_collect_and_convert after its makedirs
Step2CollectAndConvert(pcb_data, images, labels) ==
    Step2CollectFrom(
        WorkItems(SelectSeq(pcb_data.entries, LAMBDA d : StartsWith(d.name, GroupPrefix))),
        1, [NoCollection EXCEPT !.images = images, !.labels = labels])

\* ------------------------------------------------------------------------
\* The pairs of the splitters and the copy into the split directories
\* ------------------------------------------------------------------------

\* the extensions split_unified_dataset tries, in its order
ImageExtensions ==
    <<DotJpg, DotJpeg, DotPng,
      <<".", "J", "P", "G">>, <<".", "J", "P", "E", "G">>, <<".", "P", "N", "G">>>>

\* possible_image_names of a label
PossibleImageNames(label_basename) ==
    Flatten([i \in 1..Len(ImageExtensions) |->
                <<label_basename \o ImageExtensions[i],
                  Replace(label_basename, GroupPrefix, <<>>) \o ImageExtensions[i]>>])

\* any(part in img_basename for part in label_basename.split('_')
\*     if len(part) > 3)
SharesPart(img_basename, label_basename) ==
    \E k \in 1..Len(SplitOn(label_basename, "_")) :
        /\ Len(SplitOn(label_basename, "_")[k]) > 3
        /\ Contains(img_basename, SplitOn(label_basename, "_")[k])

\* the image of a label found by the search for a shared part alone: the
\* exact names are not tried
ImageForLabelBySubstring(all_images, label_basename) ==
    LET hits == {i \in 1..Len(all_images) :
                    SharesPart(SplitExtRoot(all_images[i].name), label_basename)}
    IN  IF hits = {} THEN <<>>
        ELSE <<all_images[CHOOSE i \in hits : \A k \in hits : i <= k]>>

\* the image split_unified_dataset pairs with a label: <<image>>, or <<>>
\* if it finds none; all_images is the image directory as glob lists it
ImageForLabel(all_images, label_basename) ==
    IF FirstExisting(Range(all_images), PossibleImageNames(label_basename)) # <<>>
    THEN <<FileNamed(Range(all_images),
                     FirstExisting(Range(all_images), PossibleImageNames(label_basename)))>>
    ELSE LET hits == {i \in 1..Len(all_images) :
                         SharesPart(SplitExtRoot(all_images[i].name), label_basename)}
         IN  IF hits = {} THEN <<>>
             ELSE <<all_images[CHOOSE i \in hits : \A k \in hits : i <= k]>>

\* valid_pairs of split_unified_dataset before the shuffle
SplitUnifiedValidPairs(all_images, label_files) ==
    Flatten([i \in 1..Len(label_files) |->
                [k \in 1..Len(ImageForLabel(all_images, SplitExtRoot(label_files[i].name))) |->
                    [image |-> ImageForLabel(all_images,
                                             SplitExtRoot(label_files[i].name))[k],
                     label |-> label_files[i]]]])

\* valid_pairs of step3_split_dataset before the shuffle
Step3ValidPairs(image_files, unified_labels) ==
    Flatten([i \in 1..Len(image_files) |->
                IF Exists(unified_labels, SplitExtRoot(image_files[i].name) \o DotTxt)
                THEN <<[image |-> image_files[i],
                        label |-> FileNamed(unified_labels,
                                            SplitExtRoot(image_files[i].name) \o DotTxt)]>>
                ELSE <<>>])

\* glob of "*<ext>" in a directory
Glob(files, ext) == {f \in files : EndsWith(f.name, ext)}

\* the image (label) directory of a split after the pairs were copied into it
RECURSIVE CopyInto(_, _, _, _)
CopyInto(files, pairs, i, what) ==
    IF i > Len(pairs) THEN files
    ELSE CopyInto(WriteFile(files, pairs[i][what]), pairs, i + 1, what)

SplitNames == <<"train", "val", "test">>

AllImagesDir == "DeepPCB/all_images"

LabelsDir == "DeepPCB/labels"

UnifiedImagesDir == "DeepPCB/unified_images"

UnifiedLabelsDir == "DeepPCB/unified_labels"

SplitImagesDir == [train |-> "DeepPCB/images/train", val |-> "DeepPCB/images/val",
                   test |-> "DeepPCB/images/test"]

SplitLabelsDir == [train |-> "DeepPCB/labels/train", val |-> "DeepPCB/labels/val",
                   test |-> "DeepPCB/labels/test"]

SplitDirs == {SplitImagesDir[n] : n \in Range(SplitNames)}
                \cup {SplitLabelsDir[n] : n \in Range(SplitNames)}

Dirs == {AllImagesDir, LabelsDir, UnifiedImagesDir, UnifiedLabelsDir} \cup SplitDirs

NoDir == [exists |-> FALSE, files |-> {}]

\* os.makedirs(d, exist_ok=True) for every d of a set of directories
MakeDirs(disk, made) ==
    [d \in Dirs |-> IF d \in made THEN [disk[d] EXCEPT !.exists = TRUE] ELSE disk[d]]

\* the six split directories emptied before the pairs of each slice are
\* copied in
CopySplitsEmptied(disk, slices) ==
    [d \in Dirs |->
        IF \E n \in Range(SplitNames) : d = SplitImagesDir[n]
        THEN [disk[d] EXCEPT !.files =
                 CopyInto({}, slices[CHOOSE n \in Range(SplitNames) : d = SplitImagesDir[n]],
                          1, "image")]
        ELSE IF \E n \in Range(SplitNames) : d = SplitLabelsDir[n]
        THEN [disk[d] EXCEPT !.files =
                 CopyInto({}, slices[CHOOSE n \in Range(SplitNames) : d = SplitLabelsDir[n]],
                          1, "label")]
        ELSE disk[d]]

\* the six split directories with the pairs of each slice copied in
CopySplits(disk, slices) ==
    [d \in Dirs |->
        IF \E n \in Range(SplitNames) : d = SplitImagesDir[n]
        THEN [disk[d] EXCEPT !.files =
                 CopyInto(@, slices[CHOOSE n \in Range(SplitNames) : d = SplitImagesDir[n]],
                          1, "image")]
        ELSE IF \E n \in Range(SplitNames) : d = SplitLabelsDir[n]
        THEN [disk[d] EXCEPT !.files =
                 CopyInto(@, slices[CHOOSE n \in Range(SplitNames) : d = SplitLabelsDir[n]],
                          1, "label")]
        ELSE disk[d]]

NoSplits == [train |-> <<>>, val |-> <<>>, test |-> <<>>]

VARIABLES
    found_pairs,   \* valid_pairs as collected, before the shuffle
    valid_pairs,   \* valid_pairs after random.shuffle
    train_ratio,   \* the arguments of split_unified_dataset
    val_ratio,
    splits,        \* the slices train, val, test of the last split
    ran,           \* the function that has run, "" for none
    ann_file,      \* the annotation file given to the converter
    image,         \* the image file given to the converter
    output_file,   \* the output file of the converter
    conv,          \* the call of the converter: its name, result and lines
    pcb_data,      \* the directory DeepPCB/PCBData
    disk,          \* the directories the collectors and splitters write
    history,       \* the functions of the pipeline that have run, in order
    ret,           \* what the last function called returned
    collected,     \* what the last collector did for each annotation
    proc,          \* the main that runs, the call it is at and what it printed
    config_files,  \* dataset.yaml and class_mapping.txt with the class names they hold
    tool_files,    \* the other paths of the working directory that exist
    images_listed  \* the image files as glob listed them for the last split

splitVars == <<found_pairs, valid_pairs, train_ratio, val_ratio, splits, ran>>

convVars == <<ann_file, image, output_file, conv>>

pipeVars ==
    <<pcb_data, disk, history, ret, collected, proc, config_files, tool_files, images_listed>>

vars == <<splitVars, convVars, pipeVars>>

NoFile == [exists |-> FALSE, lines |-> <<>>]

NoCall == [fn |-> "", ret |-> FALSE, log |-> <<>>]

\* the variables of the converter when no converter call is modelled
ConvIdle ==
    /\ ann_file = [ok |-> FALSE, lines |-> <<>>]
    /\ image = [ok |-> FALSE, w |-> 1, h |-> 1]
    /\ output_file = NoFile
    /\ conv = NoCall

NoDisk == [d \in Dirs |-> NoDir]

\* no configuration file is written
NoConfig == [name \in {} |-> <<>>]

\* open(name, 'w') and the write of the class names, for the ids 0 to 5
WriteConfig(files, name, names) ==
    [n \in DOMAIN files \cup {name} |-> IF n = name THEN names ELSE files[n]]

\* no main runs: the functions are called one by one, in any order
NoMain == [main |-> "", pc |-> "any", steps |-> <<>>, printed |-> <<>>, exit_code |-> 0]

\* the variables of the pipeline when no pipeline is modelled
PipeIdle ==
    /\ pcb_data = [exists |-> FALSE, entries |-> <<>>]
    /\ disk = NoDisk
    /\ history = <<>>
    /\ ret = ""
    /\ collected = <<>>
    /\ proc = NoMain
    /\ config_files = NoConfig
    /\ tool_files = {}
    /\ images_listed = <<>>

\* the variables of the split when no split is modelled
SplitIdle ==
    /\ found_pairs = <<>>
    /\ valid_pairs = <<>>
    /\ train_ratio = DefaultTrainRatio
    /\ val_ratio = DefaultValRatio
    /\ splits = NoSplits
    /\ ran = ""

\* ------------------------------------------------------------------------
\* Specification of the split of n valid pairs
\* ------------------------------------------------------------------------

\* n valid pairs, numbered as they were found, and the ratios of the call
InitSplit ==
    /\ \E n \in 0..MaxPairs : found_pairs = [i \in 1..n |-> i]
    /\ train_ratio \in Ratios
    /\ val_ratio \in Ratios
    /\ valid_pairs = <<>>
    /\ splits = NoSplits
    /\ ran = ""
    /\ ConvIdle
    /\ PipeIdle

\* split_unified_dataset from the shuffle on (prepare_data.py lines 83-96)
SplitUnifiedPairs ==
    /\ ran = ""
    /\ \E shuffled \in Shuffles(found_pairs) :
          /\ valid_pairs' = shuffled
          /\ splits' = SplitUnifiedSlices(shuffled, train_ratio, val_ratio)
    /\ ran' = "split_unified_dataset"
    /\ UNCHANGED <<found_pairs, train_ratio, val_ratio, convVars, pipeVars>>

\* step3_split_dataset from the shuffle on (fix_and_setup_dataset.py
\* lines 183-193)
Step3SplitPairs ==
    /\ ran = ""
    /\ \E shuffled \in Shuffles(found_pairs) :
          /\ valid_pairs' = shuffled
          /\ splits' = Step3Slices(shuffled)
    /\ ran' = "step3_split_dataset"
    /\ UNCHANGED <<found_pairs, train_ratio, val_ratio, convVars, pipeVars>>

NextSplit == SplitUnifiedPairs \/ Step3SplitPairs

SpecSplit == InitSplit /\ [][NextSplit]_vars

\* ------------------------------------------------------------------------
\* Specification of one call of the converter
\* ------------------------------------------------------------------------

\* the largest image width of the boxes that are all tried
MaxDim == 6

\* the most lines of an annotation file built from LineMenu
MaxLines == 3

\* the largest raw class id tried
MaxClass == 7

\* an annotation line x1<sep>y1<sep>x2<sep>y2<sep>class_id
BoxLine(x1, y1, x2, y2, c, sep) ==
    Join(<<IntStr(x1), IntStr(y1), IntStr(x2), IntStr(y2), IntStr(c)>>, sep)

\* heights and vertical extents <<h, y1, y2>> the boxes are tried with
YSamples == {<<1, 0, 1>>, <<3, 0, 1>>, <<4, 1, 4>>, <<5, 3, 5>>, <<3, 2, 1>>}

\* lines of annotation files: well-formed with commas and with blanks,
\* "a,b,c", an empty line, four fields, a blank inside a comma-separated
\* field, six fields, blanks around the fields, a tab-separated line
LineMenu ==
    {BoxLine(1, 2, 3, 4, 5, <<",">>),
     BoxLine(10, 2, 12, 8, 3, <<" ">>),
     <<"a", ",", "b", ",", "c">>,
     <<>>,
     Join(<<IntStr(1), IntStr(2), IntStr(3), IntStr(4)>>, <<",">>),
     <<"1", " ">> \o BoxLine(2, 3, 4, 5, 6, <<",">>),
     BoxLine(0, 0, 2, 2, 0, <<",">>) \o <<",", "9">>,
     <<" ">> \o BoxLine(3, 1, 9, 7, 6, <<" ", ",", " ">>) \o <<" ">>,
     BoxLine(4, 4, 8, 6, 1, <<"\t">>) \o <<"\r">>}

\* the annotation files of at most n lines of LineMenu
RECURSIVE MenuFiles(_)
MenuFiles(n) ==
    IF n = 0 THEN {<<>>}
    ELSE LET shorter == MenuFiles(n - 1)
         IN  shorter \cup {Append(f, l) : f \in {g \in shorter : Len(g) = n - 1},
                                          l \in LineMenu}

\* the size of the image of the files built from LineMenu
MenuImage == [ok |-> TRUE, w |-> 16, h |-> 12]

\* one box line, every box with corners up to one pixel outside the image
InitBoxes ==
    /\ \E w \in 1..MaxDim, ys \in YSamples :
          /\ image = [ok |-> TRUE, w |-> w, h |-> ys[1]]
          /\ \E x1 \in 0..(w + 1), x2 \in 0..(w + 1) :
                ann_file = [ok |-> TRUE,
                            lines |-> <<BoxLine(x1, ys[2], x2, ys[3], 1, <<",">>)>>]
    /\ output_file = NoFile

\* one box line, every class id, an output file that exists or not
InitClasses ==
    /\ image = MenuImage
    /\ \E c \in (-1)..MaxClass, sep \in {<<",">>, <<" ">>} :
          ann_file = [ok |-> TRUE, lines |-> <<BoxLine(2, 3, 5, 7, c, sep)>>]
    /\ output_file \in {NoFile, [exists |-> TRUE,
                                 lines |-> <<[class_id |-> 4, center_x |-> 500000,
                                              center_y |-> 500000, bbox_width |-> 250000,
                                              bbox_height |-> 250000]>>]}

\* files of lines of LineMenu; an image or an annotation that cannot be read
InitLines ==
    /\ \E f \in MenuFiles(MaxLines), aok \in BOOLEAN, iok \in BOOLEAN :
          /\ (~aok \/ ~iok) => Len(f) <= 1
          /\ ann_file = [ok |-> aok, lines |-> f]
          /\ image = [MenuImage EXCEPT !.ok = iok]
    /\ output_file = NoFile

InitConv ==
    /\ InitBoxes \/ InitClasses \/ InitLines
    /\ conv = NoCall
    /\ SplitIdle
    /\ PipeIdle

\* convert_annotation_file of convert_deeppcb.py
ConvertAnnotationFileCall ==
    /\ conv.fn = ""
    /\ \E r \in {ConvertAnnotationFile(ann_file, image, output_file)} :
           /\ conv' = [fn |-> "convert_annotation_file", ret |-> r.ret, log |-> r.log]
           /\ output_file' = IF r.ret THEN [exists |-> TRUE, lines |-> r.output]
                             ELSE output_file
    /\ UNCHANGED <<ann_file, image, splitVars, pipeVars>>

\* convert_annotation of fix_and_setup_dataset.py
ConvertAnnotationCall ==
    /\ conv.fn = ""
    /\ \E r \in {ConvertAnnotation(ann_file, image, output_file)} :
           /\ conv' = [fn |-> "convert_annotation", ret |-> r.ret, log |-> r.log]
           /\ output_file' = IF r.ret THEN [exists |-> TRUE, lines |-> r.output]
                             ELSE output_file
    /\ UNCHANGED <<ann_file, image, splitVars, pipeVars>>

NextConv == ConvertAnnotationFileCall \/ ConvertAnnotationCall

SpecConv == InitConv /\ [][NextConv]_vars

\* ------------------------------------------------------------------------
\* Specification of the pipeline: the collectors and the splitters on
\* directories
\* ------------------------------------------------------------------------

\* the most calls of the functions of the pipeline in a behaviour
MaxRuns == 2

Group1 == GroupPrefix \o <<"1">>

Group1A == Group1 \o <<"_", "a">>

BaseB == <<"b">>

BaseAB == <<"a", "_", "b">>

\* what PCBData holds for an annotation base name of a group: nothing, the
\* annotation alone, or the annotation and its template image with a test
\* image <base>_test.jpg, .png or .jpeg, or with an image <base>.jpg; with
\* "badimg" the test image <base>_test.jpg is a file that Image.open cannot
\* read, with "badann" the annotation is a file that open cannot open
SlotKinds == {"none", "ann", "jpg", "png", "jpeg", "plain", "badimg", "badann"}

\* the kinds tried for the second annotation of group1 and for group1_a
FewSlotKinds == {"none", "ann", "jpg", "plain"}

SlotOrigin(group, base_name) == [group |-> group, base_name |-> base_name]

\* the annotation file of a slot: one box, of a class that tells the slots
\* apart
SlotAnnotation(group, slot) ==
    File(slot.base_name \o DotTxt,
         [ok |-> slot.kind # "badann",
          lines |-> <<BoxLine(2, 3, 5, 7, slot.class_id, <<",">>)>>],
         SlotOrigin(group, slot.base_name))

SlotImage(group, slot, suffix, ext) ==
    File(slot.base_name \o suffix \o ext, MenuImage, SlotOrigin(group, slot.base_name))

\* an image file that PIL cannot read
CorruptImage(group, slot, suffix, ext) ==
    File(slot.base_name \o suffix \o ext, [MenuImage EXCEPT !.ok = FALSE],
         SlotOrigin(group, slot.base_name))

\* the image files of a slot
SlotImages(group, slot) ==
    CASE slot.kind \in {"jpg", "badann"}
                             -> {SlotImage(group, slot, TestSuffix, DotJpg),
                                 SlotImage(group, slot, TempSuffix, DotJpg)}
      [] slot.kind = "badimg" -> {CorruptImage(group, slot, TestSuffix, DotJpg),
                                  SlotImage(group, slot, TempSuffix, DotJpg)}
      [] slot.kind = "png"   -> {SlotImage(group, slot, TestSuffix, DotPng),
                                 SlotImage(group, slot, TempSuffix, DotJpg)}
      [] slot.kind = "jpeg"  -> {SlotImage(group, slot, TestSuffix, DotJpeg),
                                 SlotImage(group, slot, TempSuffix, DotJpg)}
      [] slot.kind = "plain" -> {SlotImage(group, slot, <<>>, DotJpg)}
      [] OTHER               -> {}

\* a group directory with an image and an annotation subdirectory; slots in
\* the order glob lists the annotation files
GroupEntry(group, slots) ==
    [name |-> group,
     image_subdir |-> TRUE,
     annotation_subdir |-> TRUE,
     images |-> UNION {SlotImages(group, slots[i]) : i \in 1..Len(slots)},
     annotations |-> LET kept == SelectSeq(slots, LAMBDA t : t.kind # "none")
                     IN  [i \in 1..Len(kept) |-> SlotAnnotation(group, kept[i])]]

\* a directory of PCBData that is not a group
OtherEntry ==
    GroupEntry(<<"d", "o", "c", "s">>,
               <<[base_name |-> BaseB, kind |-> "jpg", class_id |-> 4]>>)

InOrder(s, reversed) == IF reversed THEN Reverse(s) ELSE s

\* no PCBData, PCBData without a group, or PCBData with the groups group1
\* (annotations b and a_b) and group1_a (annotation b), in either listing
\* order; group1_a may lack a subdirectory
InitPcbData ==
    \/ pcb_data = [exists |-> FALSE, entries |-> <<>>]
    \/ pcb_data = [exists |-> TRUE, entries |-> <<OtherEntry>>]
    \/ \E k1 \in SlotKinds, k2 \in FewSlotKinds, k3 \in FewSlotKinds,
          groups_reversed \in BOOLEAN, bases_reversed \in BOOLEAN,
          missing \in {"", "image_subdir", "annotation_subdir"} :
          /\ missing # "" => k3 = "jpg"
          /\ pcb_data =
                [exists |-> TRUE,
                 entries |-> <<OtherEntry>> \o InOrder(
                    <<GroupEntry(Group1, InOrder(
                          <<[base_name |-> BaseB, kind |-> k1, class_id |-> 1],
                            [base_name |-> BaseAB, kind |-> k2, class_id |-> 2]>>,
                          bases_reversed)),
                      LET g == GroupEntry(Group1A,
                                  <<[base_name |-> BaseB, kind |-> k3, class_id |-> 3]>>)
                      IN  IF missing = "image_subdir"
                          THEN [g EXCEPT !.image_subdir = FALSE, !.images = {}]
                          ELSE IF missing = "annotation_subdir"
                          THEN [g EXCEPT !.annotation_subdir = FALSE, !.annotations = <<>>]
                          ELSE g>>,
                    groups_reversed)]

InitPipe ==
    /\ InitPcbData
    /\ disk = NoDisk
    /\ history = <<>>
    /\ ret = ""
    /\ collected = <<>>
    /\ proc = NoMain
    /\ config_files = NoConfig
    /\ tool_files = {}
    /\ images_listed = <<>>
    /\ SplitIdle
    /\ ConvIdle

\* where a main goes on: at the call of a function, or at its end with
\* what it prints last and the exit status of the script
Goto(fn) == [pc |-> fn, say |-> <<>>, exit_code |-> 0]

Return(say) == [pc |-> "done", say |-> say, exit_code |-> 0]

\* an exception that no main catches ends the script with status 1
Traceback == [pc |-> "done", say |-> <<>>, exit_code |-> 1]

\* the control flow of the three mains after the function fn has returned r
Flow(fn, r) ==
    CASE r = "raised" -> Traceback
      [] fn = "collect_deeppcb_dataset" ->
            IF r = "True" THEN Goto("verify_conversion")
            ELSE Return(<<"Dataset conversion failed!">>)
      [] fn = "verify_conversion" ->
            IF r = "True" THEN Goto("create_class_mapping")
            ELSE Return(<<"Conversion verification failed!">>)
      [] fn = "create_class_mapping" ->
            Return(<<"Dataset conversion completed successfully!">>)
      [] fn = "split_unified_dataset" ->
            IF r = "True" THEN Goto("verify_dataset_structure")
            ELSE Return(<<"Dataset preparation failed!">>)
      [] fn = "verify_dataset_structure" -> Goto("create_dataset_yaml")
      [] fn = "create_dataset_yaml" -> Return(<<"Dataset is ready for training!">>)
      [] fn = "step1_analyze_raw_data" ->
            IF r = "True" THEN Goto("step2_collect_and_convert") ELSE Return(<<>>)
      [] fn = "step2_collect_and_convert" ->
            IF r = "True" THEN Goto("step3_split_dataset") ELSE Return(<<>>)
      [] fn = "step3_split_dataset" ->
            IF r = "True" THEN Goto("step4_create_yaml") ELSE Return(<<>>)
      [] fn = "step4_create_yaml" -> Goto("step5_verify")
      [] fn = "step5_verify" ->
            IF r = "True" THEN Return(<<"Dataset setup completed successfully!">>)
            ELSE Return(<<"Setup verification failed!">>)
      [] fn = "install_yolov5" ->
            IF r = "True" THEN Goto("check_dataset_structure") ELSE Return(<<>>)
      [] fn = "check_dataset_structure" ->
            IF r = "True" THEN Goto("train.create_dataset_yaml")
            ELSE Return(<<"Dataset not properly prepared!">>)
      [] fn = "train.create_dataset_yaml" -> Goto("train_yolov5")
      [] fn = "train_yolov5" ->
            IF r = "True" THEN Return(<<"Training Summary:">>)
            ELSE Return(<<"Training failed. Check the error messages above.">>)
      [] fn = "download_deeppcb_dataset" ->
            IF r = "True" THEN Goto("create_directory_structure")
            ELSE Return(<<"Setup failed. Please check the error messages above.">>)
      [] fn = "create_directory_structure" -> Return(<<"Setup completed!">>)

\* the function fn may be called now: by the main that runs, or directly
Called(fn) == proc.pc \in {"any", fn}

\* the main after the function fn has returned r
AfterCall(p, fn, r) ==
    IF p.pc = "any" THEN p
    ELSE [p EXCEPT !.pc = Flow(fn, r).pc,
                   !.steps = Append(@, [fn |-> fn, ret |-> r]),
                   !.printed = @ \o Flow(fn, r).say,
                   !.exit_code = Flow(fn, r).exit_code]

PyBool(b) == IF b THEN "True" ELSE "False"

\* collect_deeppcb_dataset()
CollectDeepPCB ==
    /\ Called("collect_deeppcb_dataset")
    /\ Len(history) < MaxRuns
    /\ \E r \in {CollectDeepPCBDataset(pcb_data, disk[AllImagesDir].files,
                                       disk[LabelsDir].files)} :
          /\ disk' = [MakeDirs(disk, {AllImagesDir, LabelsDir})
                         EXCEPT ![AllImagesDir].files = r.images,
                                ![LabelsDir].files = r.labels]
          /\ ret' = PyBool(pcb_data.exists /\ r.total_converted > 0)
          /\ collected' = r.log
    /\ ran' = "collect_deeppcb_dataset"
    /\ history' = Append(history, "collect_deeppcb_dataset")
    /\ proc' = AfterCall(proc, "collect_deeppcb_dataset", ret')
    /\ UNCHANGED <<pcb_data, found_pairs, valid_pairs, train_ratio, val_ratio, splits,
                   config_files, tool_files, images_listed, convVars>>

\* step2_collect_and_convert(); os.listdir raises if PCBData does not exist
Step2Collect ==
    /\ Called("step2_collect_and_convert")
    /\ Len(history) < MaxRuns
    /\ IF ~pcb_data.exists
       THEN /\ disk' = MakeDirs(disk, {UnifiedImagesDir, UnifiedLabelsDir})
            /\ ret' = "raised"
            /\ collected' = <<>>
       ELSE \E r \in {Step2CollectAndConvert(pcb_data, disk[UnifiedImagesDir].files,
                                             disk[UnifiedLabelsDir].files)} :
               /\ disk' = [MakeDirs(disk, {UnifiedImagesDir, UnifiedLabelsDir})
                              EXCEPT ![UnifiedImagesDir].files = r.images,
                                     ![UnifiedLabelsDir].files = r.labels]
               /\ ret' = PyBool(r.total_converted > 0)
               /\ collected' = r.log
    /\ ran' = "step2_collect_and_convert"
    /\ history' = Append(history, "step2_collect_and_convert")
    /\ proc' = AfterCall(proc, "step2_collect_and_convert", ret')
    /\ UNCHANGED <<pcb_data, found_pairs, valid_pairs, train_ratio, val_ratio, splits,
                   config_files, tool_files, images_listed, convVars>>

\* split_unified_dataset() with its default arguments; makedirs of
\* DeepPCB/labels/train makes DeepPCB/labels too
SplitUnified ==
    /\ Called("split_unified_dataset")
    /\ Len(history) < MaxRuns
    /\ \E all_images \in Listings(disk[AllImagesDir].files),
          label_files \in Listings(Glob(disk[LabelsDir].files, DotTxt)) :
          \E pairs \in {SplitUnifiedValidPairs(all_images, label_files)} :
             /\ images_listed' = all_images
             /\ found_pairs' = pairs
             /\ IF pairs = <<>>
                THEN /\ valid_pairs' = <<>>
                     /\ splits' = NoSplits
                     /\ disk' = MakeDirs(disk, SplitDirs \cup {LabelsDir})
                     /\ ret' = "False"
                ELSE \E shuffled \in Shuffles(pairs) :
                        /\ valid_pairs' = shuffled
                        /\ splits' = SplitUnifiedSlices(shuffled, train_ratio, val_ratio)
                        /\ disk' = CopySplits(MakeDirs(disk, SplitDirs \cup {LabelsDir}),
                                              splits')
                        /\ ret' = "True"
    /\ ran' = "split_unified_dataset"
    /\ history' = Append(history, "split_unified_dataset")
    /\ proc' = AfterCall(proc, "split_unified_dataset", ret')
    /\ UNCHANGED <<pcb_data, collected, train_ratio, val_ratio, config_files, tool_files,
                   convVars>>

\* step3_split_dataset()
Step3Split ==
    /\ Called("step3_split_dataset")
    /\ Len(history) < MaxRuns
    /\ \E image_files \in Listings(Glob(disk[UnifiedImagesDir].files, DotJpg)) :
          \E pairs \in {Step3ValidPairs(image_files, disk[UnifiedLabelsDir].files)} :
             /\ images_listed' = image_files
             /\ found_pairs' = pairs
             /\ IF image_files = <<>>
                THEN /\ valid_pairs' = <<>>
                     /\ splits' = NoSplits
                     /\ disk' = MakeDirs(disk, SplitDirs \cup {LabelsDir})
                     /\ ret' = "False"
                ELSE \E shuffled \in Shuffles(pairs) :
                        /\ valid_pairs' = shuffled
                        /\ splits' = Step3Slices(shuffled)
                        /\ disk' = CopySplits(MakeDirs(disk, SplitDirs \cup {LabelsDir}),
                                              splits')
                        /\ ret' = "True"
    /\ ran' = "step3_split_dataset"
    /\ history' = Append(history, "step3_split_dataset")
    /\ proc' = AfterCall(proc, "step3_split_dataset", ret')
    /\ UNCHANGED <<pcb_data, collected, train_ratio, val_ratio, config_files, tool_files,
                   convVars>>

NextPipe == CollectDeepPCB \/ Step2Collect \/ SplitUnified \/ Step3Split

SpecPipe == InitPipe /\ [][NextPipe]_vars

\* ------------------------------------------------------------------------
\* Specification of the splitters run again and again on unified
\* directories that do not change
\* ------------------------------------------------------------------------

\* a file of a unified directory; its content is told apart by class_id
UnifiedFile(name, data) == File(name, data, SlotOrigin(<<>>, name))

UnifiedLabel(base_name, class_id) ==
    UnifiedFile(base_name \o DotTxt,
                <<[class_id |-> class_id, center_x |-> 500000, center_y |-> 500000,
                   bbox_width |-> 250000, bbox_height |-> 250000]>>)

UnifiedImage(name) == UnifiedFile(name, MenuImage)

\* the unified directories tried: images and labels with the names a
\* collector gives (group1_b_test.jpg, group1_b.jpg, group1_b.txt) and with
\* names that split_unified_dataset looks for (1_b.png for group1_b.txt)
UnifiedMenu ==
    LET e1 == UnifiedImage(Group1 \o <<"_">> \o BaseB \o DotJpg)
        e2 == UnifiedImage(<<"1", "_">> \o BaseB \o DotPng)
        e3 == UnifiedImage(Group1 \o <<"_">> \o BaseAB \o DotJpg)
        f1 == UnifiedImage(Group1 \o <<"_">> \o BaseB \o TestSuffix \o DotJpg)
        l1 == UnifiedLabel(Group1 \o <<"_">> \o BaseB, 0)
        l2 == UnifiedLabel(Group1 \o <<"_">> \o BaseAB, 1)
        l3 == UnifiedLabel(<<"a", "b", "c", "_", "d">>, 2)
    IN  {[images |-> {e1, e3}, labels |-> {l1, l2}],
         [images |-> {e1, f1}, labels |-> {l1}],
         [images |-> {e2, f1}, labels |-> {l1}],
         [images |-> {f1, e3}, labels |-> {l1}],
         [images |-> {e2},     labels |-> {l2, l3}],
         [images |-> {f1},     labels |-> {l1, l3}],
         [images |-> {},       labels |-> {l1}],
         [images |-> {e1},     labels |-> {}],
         [images |-> {f1, e3}, labels |-> {l1, l2}],
         [images |-> {e1, e2, e3}, labels |-> {l1, l2, l3}]}

\* the directories when the unified directories of both pipelines hold the
\* files of u and nothing was split
UnifiedDisk(u) ==
    [d \in Dirs |->
        IF d \in {AllImagesDir, UnifiedImagesDir}
        THEN [exists |-> TRUE, files |-> u.images]
        ELSE IF d \in {LabelsDir, UnifiedLabelsDir}
        THEN [exists |-> TRUE, files |-> u.labels]
        ELSE NoDir]

\* the unified directories of both pipelines hold the same files
InitUnified ==
    /\ \E u \in UnifiedMenu : disk = UnifiedDisk(u)
    /\ pcb_data = [exists |-> FALSE, entries |-> <<>>]
    /\ history = <<>>
    /\ ret = ""
    /\ collected = <<>>
    /\ proc = NoMain
    /\ config_files = NoConfig
    /\ tool_files = {}
    /\ images_listed = <<>>
    /\ SplitIdle
    /\ ConvIdle

NextUnified == SplitUnified \/ Step3Split

SpecUnified == InitUnified /\ [][NextUnified]_vars

\* ------------------------------------------------------------------------
\* Specification of the scripts: the main of convert_deeppcb.py, of
\* prepare_data.py and of fix_and_setup_dataset.py, one after another
\* ------------------------------------------------------------------------

Mains == {"convert_deeppcb.main", "prepare_data.main", "fix_and_setup_dataset.main"}

\* the first call of a main; prepare_data.main returns at once when a
\* unified directory does not exist
FirstCall(m) ==
    CASE m = "convert_deeppcb.main" -> Goto("collect_deeppcb_dataset")
      [] m = "prepare_data.main" ->
            IF ~disk[LabelsDir].exists \/ ~disk[AllImagesDir].exists
            THEN Return(<<"Unified dataset not found!">>)
            ELSE Goto("split_unified_dataset")
      [] m = "fix_and_setup_dataset.main" -> Goto("step1_analyze_raw_data")
      [] m = "train.main" -> Goto("install_yolov5")
      [] m = "download_dataset.main" -> Goto("download_deeppcb_dataset")

\* no script runs
NoScript == [NoMain EXCEPT !.pc = "done"]

InitMain ==
    /\ InitPcbData
    /\ disk = NoDisk
    /\ history = <<>>
    /\ ret = ""
    /\ collected = <<>>
    /\ proc = NoScript
    /\ config_files = NoConfig
    /\ tool_files = {}
    /\ images_listed = <<>>
    /\ SplitIdle
    /\ ConvIdle

\* a script is started when none runs
RunMain ==
    /\ proc.pc = "done"
    /\ Len(history) < MaxRuns
    /\ \E m \in Mains :
          proc' = [main |-> m, pc |-> FirstCall(m).pc, steps |-> <<>>,
                   printed |-> FirstCall(m).say, exit_code |-> FirstCall(m).exit_code]
    /\ UNCHANGED <<pcb_data, disk, history, ret, collected, config_files, tool_files, images_listed,
                   splitVars, convVars>>

\* create_class_mapping: class_mapping, the names of the ids 0 to 5
class_mapping == <<"open", "short", "mousebite", "spur", "pin-hole", "spurious_copper">>

\* prepare_data.create_dataset_yaml: names
PrepareDataNames ==
    <<"missing_hole", "mouse_bite", "open_circuit", "short", "spur", "spurious_copper">>

\* step4_create_yaml: names
Step4Names == <<"open", "short", "mousebite", "spur", "pin-hole", "spurious_copper">>

\* verify_conversion()
VerifyConversion ==
    /\ proc.pc = "verify_conversion"
    /\ ret' = PyBool(/\ disk[AllImagesDir].exists
                     /\ disk[LabelsDir].exists
                     /\ disk[AllImagesDir].files # {}
                     /\ Glob(disk[LabelsDir].files, DotTxt) # {})
    /\ proc' = AfterCall(proc, "verify_conversion", ret')
    /\ UNCHANGED <<pcb_data, disk, history, collected, config_files, tool_files, images_listed,
                   splitVars, convVars>>

\* create_class_mapping()
CreateClassMapping ==
    /\ proc.pc = "create_class_mapping"
    /\ ret' = "None"
    /\ config_files' = WriteConfig(config_files, "DeepPCB/class_mapping.txt", class_mapping)
    /\ proc' = AfterCall(proc, "create_class_mapping", ret')
    /\ UNCHANGED <<pcb_data, disk, history, collected, tool_files, images_listed,
                   splitVars, convVars>>

\* all_good of verify_dataset_structure and of step5_verify for the six
\* directories
AllGood == \A d \in SplitDirs : disk[d].exists /\ disk[d].files # {}

\* verify_dataset_structure()
VerifyDatasetStructure ==
    /\ proc.pc = "verify_dataset_structure"
    /\ ret' = PyBool(AllGood)
    /\ proc' = AfterCall(proc, "verify_dataset_structure", ret')
    /\ UNCHANGED <<pcb_data, disk, history, collected, config_files, tool_files, images_listed,
                   splitVars, convVars>>

\* create_dataset_yaml()
CreateDatasetYaml ==
    /\ proc.pc = "create_dataset_yaml"
    /\ ret' = "None"
    /\ config_files' = WriteConfig(config_files, "dataset.yaml", PrepareDataNames)
    /\ proc' = AfterCall(proc, "create_dataset_yaml", ret')
    /\ UNCHANGED <<pcb_data, disk, history, collected, tool_files, images_listed,
                   splitVars, convVars>>

\* step1_analyze_raw_data()
Step1AnalyzeRawData ==
    /\ proc.pc = "step1_analyze_raw_data"
    /\ ret' = PyBool(/\ pcb_data.exists
                     /\ \E i \in 1..Len(pcb_data.entries) :
                           StartsWith(pcb_data.entries[i].name, GroupPrefix))
    /\ proc' = AfterCall(proc, "step1_analyze_raw_data", ret')
    /\ UNCHANGED <<pcb_data, disk, history, collected, config_files, tool_files, images_listed,
                   splitVars, convVars>>

\* step4_create_yaml()
Step4CreateYaml ==
    /\ proc.pc = "step4_create_yaml"
    /\ ret' = "None"
    /\ config_files' = WriteConfig(config_files, "dataset.yaml", Step4Names)
    /\ proc' = AfterCall(proc, "step4_create_yaml", ret')
    /\ UNCHANGED <<pcb_data, disk, history, collected, tool_files, images_listed,
                   splitVars, convVars>>

\* step5_verify()
Step5Verify ==
    /\ proc.pc = "step5_verify"
    /\ ret' = PyBool(AllGood /\ "dataset.yaml" \in DOMAIN config_files)
    /\ proc' = AfterCall(proc, "step5_verify", ret')
    /\ UNCHANGED <<pcb_data, disk, history, collected, config_files, tool_files, images_listed,
                   splitVars, convVars>>

NextMain ==
    \/ RunMain
    \/ CollectDeepPCB
    \/ VerifyConversion
    \/ CreateClassMapping
    \/ SplitUnified
    \/ VerifyDatasetStructure
    \/ CreateDatasetYaml
    \/ Step1AnalyzeRawData
    \/ Step2Collect
    \/ Step3Split
    \/ Step4CreateYaml
    \/ Step5Verify

SpecMain == InitMain /\ [][NextMain]_vars

\* ------------------------------------------------------------------------
\* Specification of the scripts around the pipeline: download_dataset.py,
\* prepare_data.py and train.py, one after another, on unified directories
\* ------------------------------------------------------------------------

Scripts == {"download_dataset.main", "prepare_data.main", "train.main"}

\* train.create_dataset_yaml: names
TrainNames == <<"open", "short", "mousebite", "spur", "pin-hole", "spurious_copper">>

\* what git clone of the DeepPCB repository puts into DeepPCB/PCBData
ClonedPCBData ==
    [exists |-> TRUE,
     entries |-> <<GroupEntry(Group1,
                      <<[base_name |-> BaseB, kind |-> "jpg", class_id |-> 1],
                        [base_name |-> BaseAB, kind |-> "jpg", class_id |-> 2]>>)>>]

\* a configuration file removed
RemoveConfig(files, name) == [n \in DOMAIN files \ {name} |-> files[n]]

\* the unified directories hold files; yolov5 is there, with or without
\* its requirements.txt, or is not
InitTools ==
    /\ \E u \in UnifiedMenu : disk = UnifiedDisk(u)
    /\ tool_files \in {{}, {"yolov5"}, {"yolov5", "yolov5/requirements.txt"}}
    /\ pcb_data = [exists |-> FALSE, entries |-> <<>>]
    /\ history = <<>>
    /\ ret = ""
    /\ collected = <<>>
    /\ proc = NoScript
    /\ config_files = NoConfig
    /\ images_listed = <<>>
    /\ SplitIdle
    /\ ConvIdle

\* a script is started when none runs
RunScript ==
    /\ proc.pc = "done"
    /\ \E m \in Scripts :
          proc' = [main |-> m, pc |-> FirstCall(m).pc, steps |-> <<>>,
                   printed |-> FirstCall(m).say, exit_code |-> FirstCall(m).exit_code]
    /\ UNCHANGED <<pcb_data, disk, history, ret, collected, config_files, tool_files,
                   images_listed, splitVars, convVars>>

\* install_yolov5(): git clone succeeds, exits with an error
\* (CalledProcessError, caught) or cannot be started (FileNotFoundError, not
\* caught); a failed pip install is a warning
InstallYolov5 ==
    /\ proc.pc = "install_yolov5"
    /\ \E clone \in {"cloned", "CalledProcessError", "FileNotFoundError"},
          pip \in {"installed", "CalledProcessError"} :
          IF "yolov5" \notin tool_files /\ clone # "cloned"
          THEN /\ tool_files' = tool_files
               /\ ret' = IF clone = "CalledProcessError" THEN "False" ELSE "raised"
          ELSE /\ tool_files' =
                     tool_files
                        \cup (IF "yolov5" \notin tool_files
                              THEN {"yolov5", "yolov5/requirements.txt"} ELSE {})
                        \cup (IF pip = "installed"
                                  /\ ("yolov5" \notin tool_files
                                         \/ "yolov5/requirements.txt" \in tool_files)
                              THEN {"installed requirements"} ELSE {})
               /\ ret' = "True"
    /\ proc' = AfterCall(proc, "install_yolov5", ret')
    /\ UNCHANGED <<pcb_data, disk, history, collected, config_files, images_listed,
                   splitVars, convVars>>

\* a missing directory treated as an empty one is: warned about only
MissingDirsWarnedOnly(dk) == TRUE

\* check_dataset_structure: no required directory is missing; the empty
\* ones are printed as a warning and change nothing
NoMissingDirs(dk) == \A d \in SplitDirs : dk[d].exists

\* check_dataset_structure()
CheckDatasetStructure ==
    /\ proc.pc = "check_dataset_structure"
    /\ ret' = PyBool(NoMissingDirs(disk))
    /\ proc' = AfterCall(proc, "check_dataset_structure", ret')
    /\ UNCHANGED <<pcb_data, disk, history, collected, config_files, tool_files,
                   images_listed, splitVars, convVars>>

\* train.create_dataset_yaml()
TrainCreateDatasetYaml ==
    /\ proc.pc = "train.create_dataset_yaml"
    /\ ret' = "dataset.yaml"
    /\ config_files' = WriteConfig(config_files, "dataset.yaml", TrainNames)
    /\ proc' = AfterCall(proc, "train.create_dataset_yaml", ret')
    /\ UNCHANGED <<pcb_data, disk, history, collected, tool_files, images_listed,
                   splitVars, convVars>>

\* train_yolov5(): the training subprocess is started; it ends well, with
\* or without best.pt, or with an error, or is interrupted
TrainYolov5 ==
    /\ proc.pc = "train_yolov5"
    /\ \E outcome \in {"best.pt", "no best.pt", "CalledProcessError", "KeyboardInterrupt"} :
          /\ tool_files' =
                tool_files \cup {"yolov5/runs/train/pcb_defect_detection"}
                   \cup (IF outcome = "best.pt"
                         THEN {"yolov5/runs/train/pcb_defect_detection/weights/best.pt",
                               "pcb_defect.pt"}
                         ELSE {})
          /\ ret' = PyBool(outcome \in {"best.pt", "no best.pt"})
    /\ proc' = AfterCall(proc, "train_yolov5", ret')
    /\ UNCHANGED <<pcb_data, disk, history, collected, config_files, images_listed,
                   splitVars, convVars>>

\* download_deeppcb_dataset(): without git nothing is done; with git the
\* directory DeepPCB is removed with all it holds, then cloned
DownloadDeepPCBDataset ==
    /\ proc.pc = "download_deeppcb_dataset"
    /\ \E git \in BOOLEAN, cloned \in BOOLEAN :
          IF ~git
          THEN /\ ret' = "False"
               /\ UNCHANGED <<pcb_data, disk, config_files>>
          ELSE /\ disk' = NoDisk
               /\ config_files' = RemoveConfig(config_files, "DeepPCB/class_mapping.txt")
               /\ pcb_data' = IF cloned THEN ClonedPCBData
                              ELSE [exists |-> FALSE, entries |-> <<>>]
               /\ ret' = PyBool(cloned)
    /\ proc' = AfterCall(proc, "download_deeppcb_dataset", ret')
    /\ UNCHANGED <<history, collected, tool_files, images_listed, splitVars, convVars>>

\* create_directory_structure(); DeepPCB/image and DeepPCB/gt are not
\* directories of the model
CreateDirectoryStructure ==
    /\ proc.pc = "create_directory_structure"
    /\ ret' = "None"
    /\ disk' = MakeDirs(disk, SplitDirs \cup {LabelsDir})
    /\ proc' = AfterCall(proc, "create_directory_structure", ret')
    /\ UNCHANGED <<pcb_data, history, collected, config_files, tool_files, images_listed,
                   splitVars, convVars>>

NextTools ==
    \/ RunScript
    \/ DownloadDeepPCBDataset
    \/ CreateDirectoryStructure
    \/ SplitUnified
    \/ VerifyDatasetStructure
    \/ CreateDatasetYaml
    \/ InstallYolov5
    \/ CheckDatasetStructure
    \/ TrainCreateDatasetYaml
    \/ TrainYolov5

SpecTools == InitTools /\ [][NextTools]_vars

\* ------------------------------------------------------------------------
\* Properties of the split (SpecSplit)
\* ------------------------------------------------------------------------

SplitSizes == <<Len(splits.train), Len(splits.val), Len(splits.test)>>

\* C1: after split_unified_dataset or step3_split_dataset, for any number
\* of valid pairs, any shuffle and any non-negative ratios, the slices train,
\* val and test are pairwise disjoint and their union is the valid pairs
SplitIsPartition ==
    ran # "" =>
        /\ Range(splits.train) \cap Range(splits.val) = {}
        /\ Range(splits.train) \cap Range(splits.test) = {}
        /\ Range(splits.val) \cap Range(splits.test) = {}
        /\ Range(splits.train) \cup Range(splits.val) \cup Range(splits.test)
              = Range(found_pairs)
        /\ Len(splits.train) + Len(splits.val) + Len(splits.test) = Len(found_pairs)

\* a split by split_unified_dataset of pairs that the shuffle has reordered,
\* with ratios that do not sum to 1 and three slices that are not empty
SplitIsPartitionWitness ==
    /\ ran = "split_unified_dataset"
    /\ valid_pairs # found_pairs
    /\ train_ratio = F05
    /\ val_ratio = F02
    /\ Len(splits.train) > 0
    /\ Len(splits.val) > 0
    /\ Len(splits.test) > 0

\* C8: 100 valid pairs split with the ratios (0.7, 0.2, 0.1) give slices of
\* the sizes (70, 20, 10), in split_unified_dataset and step3_split_dataset
SplitHundredSizes ==
    (ran # "" /\ Len(found_pairs) = 100 /\ train_ratio = F07 /\ val_ratio = F02)
        => SplitSizes = <<70, 20, 10>>

\* ten times the decimal ratio that a float of Ratios stands for
Tenths(f) ==
    CASE f = F00 -> 0  [] f = F01 -> 1  [] f = F02 -> 2  [] f = F05 -> 5
      [] f = F07 -> 7  [] f = F09 -> 9  [] f = F10 -> 10 [] f = F15 -> 15

\* the size differs from n * tenths / 10 by less than 1
NearShare(size, n, tenths) == Abs(10 * size - n * tenths) < 10

\* C16: for ratios in [0, 1] that sum to 1 (test_ratio being 1 - train_ratio
\* - val_ratio; 0.7, 0.2 and 0.1 for step3_split_dataset), the sizes of
\* train, val and test differ from n * ratio by less than 1
RatioAdherence ==
    /\ (ran = "split_unified_dataset"
           /\ Tenths(train_ratio) + Tenths(val_ratio) <= 10) =>
          /\ NearShare(Len(splits.train), Len(found_pairs), Tenths(train_ratio))
          /\ NearShare(Len(splits.val), Len(found_pairs), Tenths(val_ratio))
          /\ NearShare(Len(splits.test), Len(found_pairs),
                       10 - Tenths(train_ratio) - Tenths(val_ratio))
    /\ ran = "step3_split_dataset" =>
          /\ NearShare(Len(splits.train), Len(found_pairs), 7)
          /\ NearShare(Len(splits.val), Len(found_pairs), 2)
          /\ NearShare(Len(splits.test), Len(found_pairs), 1)

\* ------------------------------------------------------------------------
\* Properties of the converter (SpecConv)
\* ------------------------------------------------------------------------

\* the lines of the call that were read from a box inside the image
ValidBox(entry) ==
    /\ 0 <= entry.src[1] /\ entry.src[1] < entry.src[3] /\ entry.src[3] <= image.w
    /\ 0 <= entry.src[2] /\ entry.src[2] < entry.src[4] /\ entry.src[4] <= image.h

\* 0 <= d <= 1 for a float d
InUnitInterval(d) ==
    \/ d.m = <<>>
    \/ ~d.neg /\ BitLen(d.m) + d.e <= 0
    \/ ~d.neg /\ d.m = <<1>> /\ d.e = 0

\* C4: for every line whose fields satisfy 0 <= x1 < x2 <= w and
\* 0 <= y1 < y2 <= h, the floats center_x, center_y, bbox_width and
\* bbox_height computed by the converter lie in [0, 1], and so do the
\* decimals written for them
NormalizedInUnitInterval ==
    \A k \in 1..Len(conv.log) :
        ValidBox(conv.log[k]) =>
            /\ InUnitInterval(conv.log[k].box.center_x)
            /\ InUnitInterval(conv.log[k].box.center_y)
            /\ InUnitInterval(conv.log[k].box.bbox_width)
            /\ InUnitInterval(conv.log[k].box.bbox_height)
            /\ conv.log[k].rec.center_x \in 0..FormatScale
            /\ conv.log[k].rec.center_y \in 0..FormatScale
            /\ conv.log[k].rec.bbox_width \in 0..FormatScale
            /\ conv.log[k].rec.bbox_height \in 0..FormatScale

\* a box that spans the whole width of an image 3 pixels wide and a whole
\* height: bbox_width is 1.0 and center_y a float that is not 0, 1/2 or 1
NormalizedInUnitIntervalWitness ==
    /\ conv.fn = "convert_annotation_file"
    /\ Len(conv.log) = 1
    /\ ValidBox(conv.log[1])
    /\ image.w = 3
    /\ conv.log[1].src[1] = 0
    /\ conv.log[1].src[3] = 3
    /\ conv.log[1].rec.bbox_width = FormatScale
    /\ conv.log[1].rec.center_y \notin {0, FormatScale \div 2, FormatScale}

\* C6: the converter writes c - 1 for every positive raw class id c and 0
\* for the raw class id 0, so that the raw ids 0..6 are written as 0..5
ClassRemapped ==
    \A k \in 1..Len(conv.log) :
        LET c == conv.log[k].src[5]
            written == conv.log[k].rec.class_id
        IN  /\ c > 0 => written = c - 1
            /\ c = 0 => written = 0
            /\ c \in 0..6 => written \in 0..5
            /\ output_file.lines[k].class_id = written

\* convert_annotation has written the class id 0 for the raw class id 0
ClassRemappedWitness ==
    /\ conv.fn = "convert_annotation"
    /\ Len(conv.log) = 1
    /\ conv.log[1].src[5] = 0
    /\ output_file.exists
    /\ output_file.lines[1].class_id = 0

\* a line that tokenizes into at least 5 fields of which the first five
\* parse as integers
FiveIntFields(raw) ==
    /\ Len(Tokenize(Strip(raw))) >= 5
    /\ \A i \in 1..5 : ParseInt(Tokenize(Strip(raw))[i]).ok

\* the first five fields of such a line
FiveInts(raw) == [i \in 1..5 |-> ParseInt(Tokenize(Strip(raw))[i]).val]

\* C7: for an annotation file and an image that can be read, the converter
\* returns True and the output file holds exactly one line for each input
\* line that tokenizes into at least 5 fields whose first five parse as
\* integers, in the order of the input; every other line is skipped
BestEffortPerLine ==
    (conv.fn # "" /\ ann_file.ok /\ image.ok) =>
        LET good == SelectSeq(ann_file.lines, FiveIntFields)
        IN  /\ conv.ret
            /\ output_file.exists
            /\ Len(output_file.lines) = Len(good)
            /\ Len(conv.log) = Len(good)
            /\ \A k \in 1..Len(good) :
                  /\ conv.log[k].src = FiveInts(good[k])
                  /\ output_file.lines[k] = conv.log[k].rec

\* the line "a,b,c" between two well-formed lines: both are written
BestEffortPerLineWitness ==
    /\ conv.fn = "convert_annotation_file"
    /\ conv.ret
    /\ Len(ann_file.lines) = 3
    /\ ann_file.lines[2] = <<"a", ",", "b", ",", "c">>
    /\ FiveIntFields(ann_file.lines[1])
    /\ FiveIntFields(ann_file.lines[3])
    /\ Len(output_file.lines) = 2
    /\ output_file.lines[2].class_id = RemapClass(FiveInts(ann_file.lines[3])[5])

\* Denormalization of the floats c (a centre, c >= 0) and s (a size) of an
\* image of dim pixels: the corner (c + side * s / 2) * dim, side = -1 or 1,
\* against the coordinate x >= 0 it was computed from.  With t the smallest
\* exponent, C = c / 2^t and S = |s| / 2^t are integers and
\*    2 * corner / 2^t = 2 * dim * C + sign * dim * S,
\* sign = side if s >= 0 and -side if not.  DenormSides is the pair
\* <<left, right, unit>> of integers with
\*    left - right = 2 * (corner - x) / 2^t   and   unit = 1 / 2^t
DenormSides(c, s, dim, x, side) ==
    LET t     == Min(Min(c.e, s.e), 0)
        C     == BigMulNat(ShiftLeft(c.m, c.e - t), 2 * dim)
        S     == BigMulNat(ShiftLeft(s.m, s.e - t), dim)
        unit  == ShiftLeft(<<1>>, -t)
        X     == BigMulNat(unit, 2 * x)
    IN  IF (side > 0) = (~s.neg)
        THEN <<BigAdd(C, S), X, unit>>
        ELSE <<C, BigAdd(S, X), unit>>

\* the corner is the coordinate x itself
DenormExact(c, s, dim, x, side) ==
    DenormSides(c, s, dim, x, side)[1] = DenormSides(c, s, dim, x, side)[2]

Million(x) == BigMulNat(BigMulNat(x, Thousand), Thousand)

\* |corner - x| <= dim * 10^-6, which is
\* 10^6 * |left - right| <= 2 * dim * unit
DenormCloseOf(sides, dim) ==
    /\ BigLeq(Million(sides[1]), BigAdd(Million(sides[2]), BigMulNat(sides[3], 2 * dim)))
    /\ BigLeq(Million(sides[2]), BigAdd(Million(sides[1]), BigMulNat(sides[3], 2 * dim)))

DenormClose(c, s, dim, x, side) == DenormCloseOf(DenormSides(c, s, dim, x, side), dim)

\* the same for the decimals written, cm = c * 10^6 and sm = s * 10^6:
\* |(cm + side * sm / 2) * dim / 10^6 - x| <= dim * 10^-6
WrittenClose(cm, sm, dim, x, side) ==
    Abs(dim * (2 * cm + side * sm) - 2 * FormatScale * x) <= 2 * dim

\* the four corners of a line of the call, before formatting, are exact
BoxExact(entry) ==
    /\ DenormExact(entry.box.center_x, entry.box.bbox_width, image.w, entry.src[1], -1)
    /\ DenormExact(entry.box.center_x, entry.box.bbox_width, image.w, entry.src[3], 1)
    /\ DenormExact(entry.box.center_y, entry.box.bbox_height, image.h, entry.src[2], -1)
    /\ DenormExact(entry.box.center_y, entry.box.bbox_height, image.h, entry.src[4], 1)

\* the four corners of a line of the call, before formatting, are within
\* w * 10^-6 (h * 10^-6) of the box
BoxClose(entry) ==
    /\ DenormClose(entry.box.center_x, entry.box.bbox_width, image.w, entry.src[1], -1)
    /\ DenormClose(entry.box.center_x, entry.box.bbox_width, image.w, entry.src[3], 1)
    /\ DenormClose(entry.box.center_y, entry.box.bbox_height, image.h, entry.src[2], -1)
    /\ DenormClose(entry.box.center_y, entry.box.bbox_height, image.h, entry.src[4], 1)

\* the four corners of the line written are within w * 10^-6 (h * 10^-6)
RecClose(entry) ==
    /\ WrittenClose(entry.rec.center_x, entry.rec.bbox_width, image.w, entry.src[1], -1)
    /\ WrittenClose(entry.rec.center_x, entry.rec.bbox_width, image.w, entry.src[3], 1)
    /\ WrittenClose(entry.rec.center_y, entry.rec.bbox_height, image.h, entry.src[2], -1)
    /\ WrittenClose(entry.rec.center_y, entry.rec.bbox_height, image.h, entry.src[4], 1)

Runs(fn) == Cardinality({i \in 1..Len(history) : history[i] = fn})

\* the files of all directories written by the pipeline
DiskFiles == UNION {disk[d].files : d \in Dirs}

\* C2: when split_unified_dataset runs on the directories written by
\* collect_deeppcb_dataset, every pair of valid_pairs holds a label and an
\* image made from the same annotation base name of the same group
PairsFromSameSource ==
    (history = <<"collect_deeppcb_dataset", "split_unified_dataset">>) =>
        \A k \in 1..Len(valid_pairs) :
            valid_pairs[k].image.origin = valid_pairs[k].label.origin

\* the pairs <<annotation file, group>> of the annotation files of the
\* group directories of PCBData
AnnotationsOfGroups ==
    UNION {Range(pcb_data.entries[i].annotations) \X {pcb_data.entries[i]} :
              i \in {k \in 1..Len(pcb_data.entries) :
                        StartsWith(pcb_data.entries[k].name, GroupPrefix)}}

\* the image subdirectory of the group holds no <base>_test.<ext>
NoTestImage(group, base_name) ==
    ~\E f \in group.images : StartsWith(f.name, base_name \o TestSuffix \o <<".">>)

UniqueNames ==
    \A i \in 1..Len(collected), j \in 1..Len(collected) :
        (collected[i].group # collected[j].group
            \/ collected[i].base_name # collected[j].base_name)
        => /\ collected[i].image # collected[j].image
           /\ collected[i].label # collected[j].label

\* what one run of a collector on empty unified directories writes
OneRunDeepPCB == CollectDeepPCBDataset(pcb_data, {}, {})

OneRunStep2 == Step2CollectAndConvert(pcb_data, {}, {})

\* C10: when a collector has run twice or more on the same PCBData, its
\* unified image and label directories hold the files, with the contents,
\* that one run writes
CollectorIdempotent ==
    /\ Runs("collect_deeppcb_dataset") >= 2 =>
          /\ disk[AllImagesDir].files = OneRunDeepPCB.images
          /\ disk[LabelsDir].files = OneRunDeepPCB.labels
    /\ (Runs("step2_collect_and_convert") >= 2 /\ pcb_data.exists) =>
          /\ disk[UnifiedImagesDir].files = OneRunStep2.images
          /\ disk[UnifiedLabelsDir].files = OneRunStep2.labels

\* collect_deeppcb_dataset has run twice and converted two annotations,
\* each label holds its one line
CollectorIdempotentWitness ==
    /\ history = <<"collect_deeppcb_dataset", "collect_deeppcb_dataset">>
    /\ ret = "True"
    /\ Len(collected) >= 2
    /\ Cardinality(disk[LabelsDir].files) >= 2
    /\ \A f \in disk[LabelsDir].files : Len(f.data) = 1

\* the collectors
Collectors == {"collect_deeppcb_dataset", "step2_collect_and_convert"}

CollectedPairsValid ==
    /\ history = <<"collect_deeppcb_dataset">> =>
          /\ \A f \in disk[AllImagesDir].files :
                \E g \in disk[LabelsDir].files : g.origin = f.origin
          /\ \A g \in disk[LabelsDir].files :
                \E f \in disk[AllImagesDir].files : f.origin = g.origin
    /\ (history = <<"step2_collect_and_convert">> /\ ret # "raised") =>
          /\ \A f \in disk[UnifiedImagesDir].files :
                \E g \in disk[UnifiedLabelsDir].files : g.origin = f.origin
          /\ \A g \in disk[UnifiedLabelsDir].files :
                \E f \in disk[UnifiedImagesDir].files : f.origin = g.origin

\* C17: when the first call of the pipeline is collect_deeppcb_dataset
\* without PCBData, or a splitter that returns False, no directory has been
\* made and no file written
FailedStepLeavesNothing ==
    (/\ Len(history) = 1
     /\ ret = "False"
     /\ ran = "collect_deeppcb_dataset" => ~pcb_data.exists
     /\ ran # "step2_collect_and_convert")
    => disk = NoDisk

\* the names of the files of a directory
NamesIn(d) == {f.name : f \in disk[d].files}

\* C18: after collect_deeppcb_dataset and one run of split_unified_dataset
\* on empty split directories, no image name is in two of images/train,
\* images/val and images/test, and each split holds as many images as labels
SingleSplitDisjoint ==
    (history = <<"collect_deeppcb_dataset", "split_unified_dataset">> /\ ret = "True") =>
        /\ \A n1 \in Range(SplitNames), n2 \in Range(SplitNames) :
              n1 # n2 => NamesIn(SplitImagesDir[n1]) \cap NamesIn(SplitImagesDir[n2]) = {}
        /\ \A n \in Range(SplitNames) :
              Cardinality(disk[SplitImagesDir[n]].files)
                 = Cardinality(disk[SplitLabelsDir[n]].files)

\* ------------------------------------------------------------------------
\* Properties of the splitters run again (SpecUnified)
\* ------------------------------------------------------------------------

Splitters == {"split_unified_dataset", "step3_split_dataset"}

UnifiedDirs == {AllImagesDir, LabelsDir, UnifiedImagesDir, UnifiedLabelsDir}

\* C13: a run of a splitter leaves every file of the unified directories as
\* it was, leaves every file that was in a split directory there with the
\* content it had, and every file of a split directory is the copy of a file
\* of a unified directory; this holds for the first run and for every run
\* after it
SplitterOnlyAdds ==
    [][(history' # history /\ ran' \in Splitters) =>
          /\ \A d \in UnifiedDirs : disk'[d].files = disk[d].files
          /\ \A d \in SplitDirs : disk[d].files \subseteq disk'[d].files
          /\ \A d \in SplitDirs :
                disk'[d].files \subseteq UNION {disk'[u].files : u \in UnifiedDirs}]_vars

\* split_unified_dataset has run twice on two pairs and has put another
\* pair into train the second time: images/train holds both images
SplitterOnlyAddsWitness ==
    /\ history = <<"split_unified_dataset", "split_unified_dataset">>
    /\ ret = "True"
    /\ Len(splits.train) = 1
    /\ Cardinality(disk[SplitImagesDir.train].files) = 2
    /\ Cardinality(disk[SplitLabelsDir.train].files) = 2

\* the exact image names of a label: its base name, or its base name
\* without "group", with one of the six extensions
ExactNames(label_basename) ==
    {stem \o ext : stem \in {label_basename, Replace(label_basename, GroupPrefix, <<>>)},
                   ext \in {DotJpg, DotJpeg, DotPng, <<".", "J", "P", "G">>,
                            <<".", "J", "P", "E", "G">>, <<".", "P", "N", "G">>}}

\* the places in the listing of the images whose base name contains a part
\* of the label base name, split at "_", that is longer than 3 characters
PlacesSharingPart(label_basename) ==
    {i \in 1..Len(images_listed) :
        \E part \in Range(SplitOn(label_basename, "_")) :
            Len(part) > 3 /\ Contains(SplitExtRoot(images_listed[i].name), part)}

\* C15: after split_unified_dataset, a label for which an image with an
\* exact name exists is paired with such an image; a label without one is
\* paired with the first image of the listing that contains a part of its
\* name longer than 3 characters; a label without either is in no pair
FallbackOnlyWithoutExact ==
    ran = "split_unified_dataset" =>
        \A label \in Glob(disk[LabelsDir].files, DotTxt) :
            LET label_basename == SplitExtRoot(label.name)
                exact == {f \in disk[AllImagesDir].files :
                             f.name \in ExactNames(label_basename)}
                places == PlacesSharingPart(label_basename)
                paired == {k \in 1..Len(found_pairs) : found_pairs[k].label = label}
            IN  /\ Cardinality(paired) <= 1
                /\ exact # {} =>
                      \E k \in paired : found_pairs[k].image \in exact
                /\ (exact = {} /\ places # {}) =>
                      \E k \in paired : \E i \in places :
                          /\ found_pairs[k].image = images_listed[i]
                          /\ \A j \in places : i <= j
                /\ (exact = {} /\ places = {}) => paired = {}

\* a label without an exact image was paired with the first of two listed
\* images that contain "group1"; the second one was left out
FallbackOnlyWithoutExactWitness ==
    /\ ran = "split_unified_dataset"
    /\ Len(found_pairs) = 1
    /\ Len(images_listed) = 2
    /\ found_pairs[1].image = images_listed[1]
    /\ found_pairs[1].image.name \notin ExactNames(SplitExtRoot(found_pairs[1].label.name))
    /\ PlacesSharingPart(SplitExtRoot(found_pairs[1].label.name)) = {1, 2}
    /\ images_listed[1].name = Group1 \o <<"_">> \o BaseAB \o DotJpg

\* C19: after any number of runs of step3_split_dataset on the same unified
\* directories, no file name is in two of the train, val and test
\* directories of the images, nor of the labels
SplitsDisjointOnDisk ==
    (\A i \in 1..Len(history) : history[i] = "step3_split_dataset") =>
        \A n1 \in Range(SplitNames), n2 \in Range(SplitNames) :
            n1 # n2 =>
                /\ NamesIn(SplitImagesDir[n1]) \cap NamesIn(SplitImagesDir[n2]) = {}
                /\ NamesIn(SplitLabelsDir[n1]) \cap NamesIn(SplitLabelsDir[n2]) = {}

\* ------------------------------------------------------------------------
\* Properties of the scripts (SpecMain)
\* ------------------------------------------------------------------------

\* a script has ended
MainEnded == proc.main # "" /\ proc.pc = "done"

\* the messages with which a main reports success
SuccessMessages ==
    {"Dataset conversion completed successfully!", "Dataset is ready for training!",
     "Dataset setup completed successfully!"}

\* the functions that return False for total absence of their input
InputSteps ==
    {"collect_deeppcb_dataset", "split_unified_dataset", "step1_analyze_raw_data",
     "step2_collect_and_convert", "step3_split_dataset"}

\* C12: when a collector, a splitter or step1_analyze_raw_data has returned
\* False in a main that has ended, the main has called nothing after it, has
\* printed no message of success, and the script has ended with an exit
\* status that is not zero
AbsenceEndsInFailure ==
    MainEnded =>
        \A i \in 1..Len(proc.steps) :
            (proc.steps[i].fn \in InputSteps /\ proc.steps[i].ret = "False") =>
                /\ i = Len(proc.steps)
                /\ \A k \in 1..Len(proc.printed) : proc.printed[k] \notin SuccessMessages
                /\ proc.exit_code # 0

\* C20: a main that has ended and has printed "Dataset is ready for
\* training!" or "Dataset setup completed successfully!" has called its
\* verification of the structure and got True from it, and the six split
\* directories exist and hold a file each
ReadyOnlyIfVerified ==
    (/\ MainEnded
     /\ \E k \in 1..Len(proc.printed) :
           proc.printed[k] \in {"Dataset is ready for training!",
                                "Dataset setup completed successfully!"})
    => /\ \E i \in 1..Len(proc.steps) :
             /\ proc.steps[i].fn \in {"verify_dataset_structure", "step5_verify"}
             /\ proc.steps[i].ret = "True"
       /\ \A d \in SplitDirs : disk[d].exists /\ disk[d].files # {}

\* ------------------------------------------------------------------------
\* Properties of the scripts around the pipeline (SpecTools)
\* ------------------------------------------------------------------------

\* train.main has called train_yolov5, which starts the training subprocess
TrainingStarted ==
    /\ proc.main = "train.main"
    /\ \E k \in 1..Len(proc.steps) : proc.steps[k].fn = "train_yolov5"

\* the steps of train.main before the training, in their order, with the
\* results that let the training start
StepsBeforeTraining ==
    /\ Len(proc.steps) >= 4
    /\ proc.steps[1] = [fn |-> "install_yolov5", ret |-> "True"]
    /\ proc.steps[2] = [fn |-> "check_dataset_structure", ret |-> "True"]
    /\ proc.steps[3] = [fn |-> "train.create_dataset_yaml", ret |-> "dataset.yaml"]
    /\ proc.steps[4].fn = "train_yolov5"
    /\ "yolov5" \in tool_files
    /\ "dataset.yaml" \in DOMAIN config_files
    /\ config_files["dataset.yaml"] = TrainNames

\* C21 (as amended): train.main starts the training subprocess only in runs
\* where install_yolov5 returned True, every one of the six split
\* directories exists (an empty one is only warned about), and
\* dataset.yaml was written before the subprocess is started
TrainingOnlyWhenPrepared ==
    TrainingStarted =>
        /\ StepsBeforeTraining
        /\ \A d \in SplitDirs : disk[d].exists

\* training was started although a split directory holds no file and the
\* requirements of yolov5 were not installed
TrainingOnlyWhenPreparedWitness ==
    /\ TrainingStarted
    /\ \E d \in SplitDirs : disk[d].exists /\ disk[d].files = {}
    /\ "installed requirements" \notin tool_files

\* C21 as stated: the training subprocess is started only where the install
\* step succeeded, every one of the six split directories exists and is
\* non-empty, and dataset.yaml was written before
TrainingOnlyOnNonEmptySplits ==
    TrainingStarted =>
        /\ StepsBeforeTraining
        /\ \A d \in SplitDirs : disk[d].exists /\ disk[d].files # {}

\* app.py, draw_detections: class_names
class_names ==
    <<"missing_hole", "mouse_bite", "open_circuit", "short", "spur", "spurious_copper">>

\* draw_detections: the name in the label drawn for a detection of class cls
DrawDetectionsLabel(cls) == class_names[cls + 1]

\* the defect class a name denotes, whatever its spelling
DefectClass(name) ==
    CASE name \in {"open", "open_circuit"} -> "open circuit"
      [] name \in {"short"} -> "short circuit"
      [] name \in {"mousebite", "mouse_bite"} -> "mouse bite"
      [] name \in {"spur"} -> "spur"
      [] name \in {"pin-hole", "missing_hole"} -> "missing hole"
      [] name \in {"spurious_copper"} -> "spurious copper"
      [] OTHER -> name

\* C22: for every class id 0..5 the name a written dataset.yaml or
\* class_mapping.txt gives the id and the name the serving UI displays for
\* it denote the same defect class
ClassNamesAgree ==
    \A n \in DOMAIN config_files :
        \A id \in 0..(Len(class_names) - 1) :
            DefectClass(config_files[n][id + 1]) = DefectClass(DrawDetectionsLabel(id))

\* the step in which download_deeppcb_dataset returns False
DownloadReturnsFalse ==
    /\ proc.pc = "download_deeppcb_dataset"
    /\ proc'.pc # "download_deeppcb_dataset"
    /\ ret' = "False"

\* C23: whenever download_deeppcb_dataset returns False, what the
\* directory DeepPCB held before the call is left as it was
FailedDownloadKeepsDeepPCB ==
    [][DownloadReturnsFalse =>
          /\ disk' = disk
          /\ pcb_data' = pcb_data
          /\ config_files' = config_files]_vars

====
